---- MODULE Spec2Model ----
(***************************************************************************)
(* Model of lucca-org/MTScan: the process runner run_cmd (index.py and the *)
(* generated utils.py), the naabu command builder and output parser        *)
(* (commands/naabu.py) and the orchestration script (workflow.py, written  *)
(* by index.py's create_workflow_script).                                  *)
(***************************************************************************)
EXTENDS Integers, Sequences, FiniteSets, TLC

\* ------------------------------------------------------------------------
\* Bounds
\* ------------------------------------------------------------------------
MaxRetry == 2

MaxLines == 3

MaxFiles == 2

\* ------------------------------------------------------------------------
\* State
\* ------------------------------------------------------------------------
VARIABLES
    \* --- run_cmd ---
    rc_pc,        \* position inside run_cmd ("idle" when it is not running)
    rc_cmd,       \* the command: [list |-> is it an argument vector, v |-> its items]
    rc_cmd_arg,   \* the command as the caller passed it
    rc_shell,     \* run_cmd's shell parameter
    rc_check,     \* run_cmd's check parameter
    rc_use_sudo,  \* run_cmd's use_sudo parameter
    rc_retry,     \* run_cmd's retry parameter
    rc_platform,  \* platform.system().lower()
    rc_euid,      \* os.geteuid() where it exists
    rc_env,       \* what the command does on each attempt (the environment)
    rc_attempt,   \* loop variable `attempt`
    rc_spawns,    \* number of subprocess.Popen calls made so far
    rc_spawned,   \* the (cmd, shell) pairs given to Popen, in order
    rc_child,     \* status of the child of each attempt
    rc_sleeps,    \* the time.sleep calls made so far: the seconds of each
    rc_exc,       \* exception in flight inside run_cmd ("none" when there is none)
    rc_result,    \* "none" while running, then "True", "False" or "raised"
    \* --- run_naabu ---
    nb_pc,        \* "idle", "start", "run_cmd" (waiting for run_cmd), "done"
    nb_args,      \* the keyword arguments of the call
    nb_files,     \* the paths at which os.path.isfile holds
    nb_cmd,       \* the vector handed to run_cmd (<<>> before that)
    nb_result,    \* "none", then "True" or "False"
    \* --- parse_naabu_results ---
    ps_pc,        \* "idle", "start", "done"
    ps_lines,     \* the lines the result file was written from (corpus keys)
    ps_file,      \* the file at output_file: [state, content]
    ps_json,      \* the json_format parameter
    ps_result,    \* what the call gave: [kind |-> "none" | "None" | "list" | "raised", records]
    \* --- workflow.py ---
    wf_pc,        \* position inside main()
    wf_args,      \* the parsed command line
    wf_env,       \* the installation: which naabu module, what each tool does
    wf_handler,   \* whether the SIGINT handler is installed
    wf_dir,       \* output_dir (None before it is chosen) and whether it exists
    wf_files,     \* the files of the session directory (None: no such file)
    wf_calls,     \* the tool calls made so far, with their keyword arguments
    wf_trace,     \* the stages entered so far, in order
    wf_failed,    \* the stages whose tool call returned unsuccessful
    wf_ret,       \* what each stage returned (None before it returns)
    wf_exc,       \* exception in flight ("none" when there is none)
    wf_exit,      \* exit status of the process (None while it runs)
    \* --- get_executable_path ---
    ex_pc,        \* "idle", "start", "done"
    ex_cmd,       \* the cmd parameter: the name of the tool
    ex_path,      \* the directories of the PATH variable, in order
    ex_fs,        \* what is at <directory>/<cmd>, for each directory
    ex_result,    \* None before the call returns, then <<what it returned>>
    \* --- find_tool_path (mtscan.py) ---
    ft_pc,        \* "idle", "utils", "which", "paths", "gopath", "done"
    ft_tool,      \* the tool_name parameter
    ft_env,       \* the machine: what the lookups give and what is at each path
    ft_idx,       \* index of the next entry of search_paths
    ft_verified,  \* the verify_tool_works calls so far: [path, ok]
    ft_runs,      \* the subprocess.run calls of verify_tool_works: [path, flag, outcome]
    ft_result,    \* None before the call returns, then <<what it returned>>
    \* --- scan sessions (mtscan.py) ---
    sd_now,       \* the clock, in ticks
    sd_sessions,  \* the run_scan invocations so far: [scan_type, target, at, dir]
    sd_dirs,      \* the session directories that exist
    \* --- run_scan's real-time output loop (mtscan.py) ---
    pl_pc,        \* "idle", "poll", "read_stdout", "read_stderr", "communicate", "done"
    pl_script,    \* what the child has still to write: [stream, line], in order
    pl_written,   \* the lines the child has written to each stream so far
    pl_pipe,      \* the lines in each pipe, written and not yet read
    pl_exited,    \* the child has exited (its ends of the pipes are closed)
    pl_lines,     \* stdout_lines and stderr_lines
    \* --- update_shell_rc_files (index.py) ---
    us_platform,  \* platform.system().lower()
    us_shell,     \* the SHELL environment variable
    us_home_fish, \* whether the home directory's path contains "fish"
    us_paths,     \* the paths_to_add parameter
    us_locked,    \* the rc files that cannot be opened (open raises)
    us_fs,        \* the content of each rc file (None: no such file)
    us_log,       \* the applications so far: [before, after, ret]
    \* --- install_security_tools (index.py) ---
    it_pc,        \* "idle", "start", "apt", "go", "alternative", "return", "done", "raised"
    it_env,       \* the machine: what is found, what each install command gives
    it_idx,       \* position of the Go loop in tools_installed
    it_installed, \* the tools_installed dictionary
    it_cmds,      \* the install commands run so far: [kind, tool, ok]
    it_alt,       \* None, then <<what create_naabu_alternative returned>>
    it_result,    \* None, then <<the dictionary returned>>
    \* --- the menu loop and run_scan (mtscan.py) ---
    mn_pc,        \* "idle", "menu", "run_scan", "try", "after", "except", "exited"
    mn_choice,    \* the option read last ("" before the first)
    mn_scan,      \* the run_scan call in progress: its arguments and whether
                  \* src/workflow.py exists (NoScan when there is none)
    mn_cmd,       \* the command line of the handler in progress (<<>> when none)
    mn_children,  \* the child processes started for the selection in progress
    mn_outcome,   \* how the child of the selection in progress ended ("none" before)
    mn_exc,       \* exception in flight inside run_scan ("none" when none)
    mn_exit,      \* exit status of the menu (None while it runs)
    mn_log        \* the scan selections completed: [choice, exists, spawned, outcome, returned]

rcParams == <<rc_cmd_arg, rc_shell, rc_check, rc_use_sudo, rc_retry, rc_platform, rc_euid, rc_env>>

rcVars == <<rc_pc, rc_cmd, rcParams, rc_attempt, rc_spawns, rc_spawned, rc_child,
            rc_sleeps, rc_exc, rc_result>>

nbVars == <<nb_pc, nb_args, nb_files, nb_cmd, nb_result>>

psVars == <<ps_pc, ps_lines, ps_file, ps_json, ps_result>>

wfVars == <<wf_pc, wf_args, wf_env, wf_handler, wf_dir, wf_files, wf_calls,
            wf_trace, wf_failed, wf_ret, wf_exc, wf_exit>>

exVars == <<ex_pc, ex_cmd, ex_path, ex_fs, ex_result>>

ftVars == <<ft_pc, ft_tool, ft_env, ft_idx, ft_verified, ft_runs, ft_result>>

\* The state of the menu (mtscan.py) and of the installer (index.py).
sdVars == <<sd_now, sd_sessions, sd_dirs>>

plVars == <<pl_pc, pl_script, pl_written, pl_pipe, pl_exited, pl_lines>>

usVars == <<us_platform, us_shell, us_home_fish, us_paths, us_locked, us_fs, us_log>>

itVars == <<it_pc, it_env, it_idx, it_installed, it_cmds, it_alt, it_result>>

mnVars == <<mn_pc, mn_choice, mn_scan, mn_cmd, mn_children, mn_outcome, mn_exc, mn_exit, mn_log>>

restVars == <<ftVars, sdVars, plVars, usVars, itVars, mnVars>>

\* The state of the components above.
coreVars == <<rcVars, nbVars, psVars, wfVars, exVars>>

\* What the steps of each of these components leave alone.
notFt == <<coreVars, sdVars, plVars, usVars, itVars, mnVars>>

notSd == <<coreVars, ftVars, plVars, usVars, itVars, mnVars>>

notPl == <<coreVars, ftVars, sdVars, usVars, itVars, mnVars>>

notUs == <<coreVars, ftVars, sdVars, plVars, itVars, mnVars>>

notIt == <<coreVars, ftVars, sdVars, plVars, usVars, mnVars>>

notMn == <<coreVars, ftVars, sdVars, plVars, usVars, itVars>>

vars == <<rcVars, nbVars, psVars, wfVars, exVars, restVars>>

\* What a run_cmd step leaves alone outside run_cmd.
notRc == <<nbVars, psVars, wfVars, exVars, restVars>>

\* ------------------------------------------------------------------------
\* run_cmd (index.py 110-182; the utils.py template 1232-1297 has the same
\* attempt loop)
\* ------------------------------------------------------------------------
Attempts == 0..MaxRetry

\* What one attempt can meet: exit code zero, a non-zero exit code, a
\* communicate() that exceeds the timeout, or Popen raising (OSError family).
Outcomes == {"ok", "nonzero", "timeout", "spawn_exc"}

NoChildren == [a \in Attempts |-> "none"]

\* A command is an argument vector (a Python list) or one shell string.
Vector(items) == [list |-> TRUE, v |-> items]

ShellString(s) == [list |-> FALSE, v |-> <<s>>]

NoCmd == Vector(<<>>)

\* A child is alive from Popen until it exits or is waited for after kill().
Alive(a) == rc_child[a] \in {"running", "killed"}

AliveChildren == {a \in Attempts : Alive(a)}

\* run_cmd is not running.
RunCmdIdle ==
    /\ rc_pc = "idle"
    /\ rc_cmd = NoCmd
    /\ rc_cmd_arg = NoCmd
    /\ rc_shell = FALSE
    /\ rc_check = FALSE
    /\ rc_use_sudo = FALSE
    /\ rc_retry = 1
    /\ rc_platform = "linux"
    /\ rc_euid = 0
    /\ rc_env = [a \in Attempts |-> "ok"]
    /\ rc_attempt = 0
    /\ rc_spawns = 0
    /\ rc_spawned = <<>>
    /\ rc_child = NoChildren
    /\ rc_sleeps = <<>>
    /\ rc_exc = "none"
    /\ rc_result = "none"

\* State at entry of run_cmd(cmd, shell, check, use_sudo, timeout, retry) on a
\* given platform, with the behaviour env of the command.               (110)
RunCmdEntry(cmd, shell, check, use_sudo, retry, platform, euid, env) ==
    /\ rc_pc = "entry"
    /\ rc_cmd = cmd
    /\ rc_cmd_arg = cmd
    /\ rc_shell = shell
    /\ rc_check = check
    /\ rc_use_sudo = use_sudo
    /\ rc_retry = retry
    /\ rc_platform = platform
    /\ rc_euid = euid
    /\ rc_env = env
    /\ rc_attempt = 0
    /\ rc_spawns = 0
    /\ rc_spawned = <<>>
    /\ rc_child = NoChildren
    /\ rc_sleeps = <<>>
    /\ rc_exc = "none"
    /\ rc_result = "none"

\* The same as a step: a caller calls run_cmd.
RunCmdCall(cmd, shell, check, use_sudo, retry, platform, euid, env) ==
    /\ rc_pc' = "entry"
    /\ rc_cmd' = cmd
    /\ rc_cmd_arg' = cmd
    /\ rc_shell' = shell
    /\ rc_check' = check
    /\ rc_use_sudo' = use_sudo
    /\ rc_retry' = retry
    /\ rc_platform' = platform
    /\ rc_euid' = euid
    /\ rc_env' = env
    /\ rc_attempt' = 0
    /\ rc_spawns' = 0
    /\ rc_spawned' = <<>>
    /\ rc_child' = NoChildren
    /\ rc_sleeps' = <<>>
    /\ rc_exc' = "none"
    /\ rc_result' = "none"

Platforms == {"linux", "windows"}

Euids == {0, 1000}

Commands == {Vector(<<"tool", "-v">>), ShellString("tool -v")}

InitRunCmdVars ==
    \E cmd \in Commands, shell \in BOOLEAN, check \in BOOLEAN, use_sudo \in BOOLEAN,
       retry \in (0 - 1)..MaxRetry, platform \in Platforms, euid \in Euids,
       env \in [Attempts -> Outcomes] :
        RunCmdEntry(cmd, shell, check, use_sudo, retry, platform, euid, env)

\* hasattr(os, 'geteuid'): the function exists on Unix-like systems only.
HasGeteuid(platform) == platform # "windows"

\* cmd = ["sudo"] + cmd if isinstance(cmd, list) else ["sudo"] + [cmd]   (119)
WithSudo(cmd) == Vector(<<"sudo">> \o cmd.v)

\* The privilege-escalation prefix, applied once before the loop.   (114-122)
\* (Variant: the effective user id is not looked at.)
SudoPrefix_NoEuidTest ==
    /\ rc_pc = "entry"
    /\ rc_cmd' = IF rc_use_sudo /\ rc_platform # "windows"
                 THEN WithSudo(rc_cmd)
                 ELSE rc_cmd
    /\ rc_pc' = "loop"
    /\ UNCHANGED <<rcParams, rc_attempt, rc_spawns, rc_spawned, rc_child,
                   rc_sleeps, rc_exc, rc_result, notRc>>

SudoPrefix ==
    /\ rc_pc = "entry"
    /\ rc_cmd' = IF /\ rc_use_sudo
                    /\ rc_platform # "windows"
                    /\ HasGeteuid(rc_platform)
                    /\ rc_euid # 0
                 THEN WithSudo(rc_cmd)
                 ELSE rc_cmd
    /\ rc_pc' = "loop"
    /\ UNCHANGED <<rcParams, rc_attempt, rc_spawns, rc_spawned, rc_child,
                   rc_sleeps, rc_exc, rc_result, notRc>>

\* `return value` from run_cmd.
Return(value) ==
    /\ rc_pc' = "done"
    /\ rc_result' = value

\* The failure tail shared by the handlers: `if attempt < retry: ...
\* time.sleep(2); continue`, and otherwise the statement that follows it.
RetryOr(otherwise) ==
    IF rc_attempt < rc_retry
    THEN /\ rc_pc' = "sleep"
         /\ rc_exc' = "none"
         /\ UNCHANGED rc_result
    ELSE otherwise

\* The except clauses of the outer try (163, 172): CalledProcessError and
\* Exception, of which OSError (what Popen raises) is a subclass.
Handled(e) == e \in {"CalledProcessError", "OSError"}

\* subprocess.Popen(cmd, shell=shell, ...)                               (129)
\* It either creates the child or raises (executable not found, ...).
PopenCall ==
    /\ rc_spawns' = rc_spawns + 1
    /\ rc_spawned' = Append(rc_spawned, [cmd |-> rc_cmd, shell |-> rc_shell])
    /\ IF rc_env[rc_attempt] = "spawn_exc"
       THEN /\ rc_pc' = "except"
            /\ rc_exc' = "OSError"
            /\ UNCHANGED rc_child
       ELSE /\ rc_child' = [rc_child EXCEPT ![rc_attempt] = "running"]
            /\ rc_pc' = "communicate"
            /\ UNCHANGED rc_exc
    /\ UNCHANGED rc_result

\* for attempt in range(retry + 1): ... Popen(...)             (124, 129; 182)
\* Popen either creates the child or raises (executable not found, ...).
\* (Variant: the loop runs over range(retry).)
Popen_RangeRetry ==
    /\ rc_pc = "loop"
    /\ IF rc_attempt < rc_retry
       THEN PopenCall
       ELSE /\ Return("False")
            /\ UNCHANGED <<rc_spawns, rc_spawned, rc_child, rc_exc>>
    /\ UNCHANGED <<rc_cmd, rcParams, rc_attempt, rc_sleeps, notRc>>

Popen ==
    /\ rc_pc = "loop"
    /\ IF rc_attempt < rc_retry + 1
       THEN PopenCall
       ELSE /\ Return("False")
            /\ UNCHANGED <<rc_spawns, rc_spawned, rc_child, rc_exc>>
    /\ UNCHANGED <<rc_cmd, rcParams, rc_attempt, rc_sleeps, notRc>>

\* process.communicate(timeout=timeout) returns, exit code zero: return True
\*                                                              (132-134, 150)
\* (Variant: a zero exit code is retried like a failure.)
CommunicateZero_Continue ==
    /\ rc_pc = "communicate"
    /\ rc_env[rc_attempt] = "ok"
    /\ rc_child' = [rc_child EXCEPT ![rc_attempt] = "exited"]
    /\ RetryOr(Return("True") /\ UNCHANGED rc_exc)
    /\ UNCHANGED <<rc_cmd, rcParams, rc_attempt, rc_spawns, rc_spawned,
                   rc_sleeps, notRc>>

CommunicateZero ==
    /\ rc_pc = "communicate"
    /\ rc_env[rc_attempt] = "ok"
    /\ rc_child' = [rc_child EXCEPT ![rc_attempt] = "exited"]
    /\ Return("True")
    /\ UNCHANGED <<rc_cmd, rcParams, rc_attempt, rc_spawns, rc_spawned,
                   rc_sleeps, rc_exc, notRc>>

\* process.communicate returns with a non-zero exit code: retry, or raise
\* CalledProcessError when check is set, or return False           (136-148)
CommunicateNonZero ==
    /\ rc_pc = "communicate"
    /\ rc_env[rc_attempt] = "nonzero"
    /\ rc_child' = [rc_child EXCEPT ![rc_attempt] = "exited"]
    /\ RetryOr(IF rc_check
               THEN /\ rc_pc' = "except"
                    /\ rc_exc' = "CalledProcessError"
                    /\ UNCHANGED rc_result
               ELSE /\ Return("False")
                    /\ UNCHANGED rc_exc)
    /\ UNCHANGED <<rc_cmd, rcParams, rc_attempt, rc_spawns, rc_spawned,
                   rc_sleeps, notRc>>

\* process.communicate raises TimeoutExpired; the child is still running (151)
CommunicateTimeout ==
    /\ rc_pc = "communicate"
    /\ rc_env[rc_attempt] = "timeout"
    /\ rc_pc' = "kill"
    /\ UNCHANGED <<rc_cmd, rcParams, rc_attempt, rc_spawns, rc_spawned,
                   rc_child, rc_sleeps, rc_exc, rc_result, notRc>>

\* process.kill()                                                        (153)
Kill ==
    /\ rc_pc = "kill"
    /\ rc_child' = [rc_child EXCEPT ![rc_attempt] = "killed"]
    /\ rc_pc' = "wait"
    /\ UNCHANGED <<rc_cmd, rcParams, rc_attempt, rc_spawns, rc_spawned,
                   rc_sleeps, rc_exc, rc_result, notRc>>

\* process.wait(), then the retry decision of the timeout handler   (154-162)
\* (Variant: the killed child is not waited for.)
Wait_NoReap ==
    /\ rc_pc = "wait"
    /\ RetryOr(Return("False") /\ UNCHANGED rc_exc)
    /\ UNCHANGED <<rc_cmd, rcParams, rc_attempt, rc_spawns, rc_spawned,
                   rc_child, rc_sleeps, notRc>>

Wait ==
    /\ rc_pc = "wait"
    /\ rc_child' = [rc_child EXCEPT ![rc_attempt] = "reaped"]
    /\ RetryOr(Return("False") /\ UNCHANGED rc_exc)
    /\ UNCHANGED <<rc_cmd, rcParams, rc_attempt, rc_spawns, rc_spawned,
                   rc_sleeps, notRc>>

\* except subprocess.CalledProcessError / except Exception           (163-180)
\* Both handlers retry while attempt < retry and return False otherwise; an
\* exception neither clause matches leaves run_cmd.
\* (Variant: only the Exception clause, matching OSError alone.)
Except_Uncaught ==
    /\ rc_pc = "except"
    /\ rc_exc # "none"
    /\ IF rc_exc = "OSError"
       THEN RetryOr(Return("False") /\ rc_exc' = "none")
       ELSE Return("raised") /\ UNCHANGED rc_exc
    /\ UNCHANGED <<rc_cmd, rcParams, rc_attempt, rc_spawns, rc_spawned,
                   rc_child, rc_sleeps, notRc>>

Except ==
    /\ rc_pc = "except"
    /\ rc_exc # "none"
    /\ IF Handled(rc_exc)
       THEN RetryOr(Return("False") /\ rc_exc' = "none")
       ELSE Return("raised") /\ UNCHANGED rc_exc
    /\ UNCHANGED <<rc_cmd, rcParams, rc_attempt, rc_spawns, rc_spawned,
                   rc_child, rc_sleeps, notRc>>

\* The delay between two attempts.                     (143, 160, 169, 178)
SleepSeconds == 2

\* time.sleep(2); continue               (143-144, 160-161, 169-170, 178-179)
\* (Variant: `continue` without the delay.)
Sleep_NoDelay ==
    /\ rc_pc = "sleep"
    /\ rc_attempt' = rc_attempt + 1
    /\ rc_pc' = "loop"
    /\ UNCHANGED <<rc_cmd, rcParams, rc_spawns, rc_spawned, rc_child,
                   rc_sleeps, rc_exc, rc_result, notRc>>

Sleep ==
    /\ rc_pc = "sleep"
    /\ rc_sleeps' = Append(rc_sleeps, SleepSeconds)
    /\ rc_attempt' = rc_attempt + 1
    /\ rc_pc' = "loop"
    /\ UNCHANGED <<rc_cmd, rcParams, rc_spawns, rc_spawned, rc_child,
                   rc_exc, rc_result, notRc>>

RunCmdStep ==
    \/ Popen
    \/ CommunicateZero
    \/ CommunicateNonZero
    \/ CommunicateTimeout
    \/ Kill
    \/ Wait
    \/ Except
    \/ Sleep

\* ------------------------------------------------------------------------
\* run_naabu (commands/naabu.py 7-78)
\* ------------------------------------------------------------------------
\* An optional argument: <<>> is None, <<v>> is the value v.
None == <<>>

Some(v) == <<v>>

\* Python truthiness of an optional string, integer or list argument.
TruthyStr(o) == o # None /\ o[1] # ""

TruthyInt(o) == o # None /\ o[1] # 0

TruthyList(o) == o # None /\ o[1] # <<>>

DecimalDigit == <<"0", "1", "2", "3", "4", "5", "6", "7", "8", "9">>

\* str(n) for a non-negative integer.
RECURSIVE Str(_)
Str(n) == IF n < 10 THEN DecimalDigit[n + 1]
          ELSE Str(n \div 10) \o DecimalDigit[(n % 10) + 1]

Contains(seq, x) == \E i \in DOMAIN seq : seq[i] = x

Count(seq, x) == Cardinality({i \in DOMAIN seq : seq[i] = x})

\* cmd = ["naabu"] followed by one flag group per argument that is set  (37-62)
\* (Variant: the -o group is added before -json.)
NaabuFlags_OutputBeforeJson(args) ==
    <<"naabu">>
    \o (IF TruthyStr(args.target) THEN <<"-host", args.target[1]>> ELSE <<>>)
    \o (IF TruthyStr(args.target_list) THEN <<"-l", args.target_list[1]>> ELSE <<>>)
    \o (IF TruthyStr(args.ports) THEN <<"-p", args.ports[1]>> ELSE <<>>)
    \o (IF TruthyStr(args.exclude_ports)
        THEN <<"-exclude-ports", args.exclude_ports[1]>> ELSE <<>>)
    \o (IF TruthyInt(args.threads) THEN <<"-c", Str(args.threads[1])>> ELSE <<>>)
    \o (IF TruthyInt(args.rate) THEN <<"-rate", Str(args.rate[1])>> ELSE <<>>)
    \o (IF TruthyInt(args.timeout) THEN <<"-timeout", Str(args.timeout[1])>> ELSE <<>>)
    \o (IF TruthyStr(args.output_file) THEN <<"-o", args.output_file[1]>> ELSE <<>>)
    \o (IF args.json_output THEN <<"-json">> ELSE <<>>)
    \o (IF args.silent THEN <<"-silent">> ELSE <<>>)
    \o (IF TruthyList(args.additional_args) THEN args.additional_args[1] ELSE <<>>)

NaabuFlags(args) ==
    <<"naabu">>
    \o (IF TruthyStr(args.target) THEN <<"-host", args.target[1]>> ELSE <<>>)
    \o (IF TruthyStr(args.target_list) THEN <<"-l", args.target_list[1]>> ELSE <<>>)
    \o (IF TruthyStr(args.ports) THEN <<"-p", args.ports[1]>> ELSE <<>>)
    \o (IF TruthyStr(args.exclude_ports)
        THEN <<"-exclude-ports", args.exclude_ports[1]>> ELSE <<>>)
    \o (IF TruthyInt(args.threads) THEN <<"-c", Str(args.threads[1])>> ELSE <<>>)
    \o (IF TruthyInt(args.rate) THEN <<"-rate", Str(args.rate[1])>> ELSE <<>>)
    \o (IF TruthyInt(args.timeout) THEN <<"-timeout", Str(args.timeout[1])>> ELSE <<>>)
    \o (IF args.json_output THEN <<"-json">> ELSE <<>>)
    \o (IF TruthyStr(args.output_file) THEN <<"-o", args.output_file[1]>> ELSE <<>>)
    \o (IF args.silent THEN <<"-silent">> ELSE <<>>)
    \o (IF TruthyList(args.additional_args) THEN args.additional_args[1] ELSE <<>>)

\* The tokens run_naabu looks for before it forces the connect scan.  (65-67)
ScanModeFlags == {"--scan-type", "-scan-type", "--connect", "-connect",
                  "--so", "-so", "--syn", "-syn"}

FallbackScanMode == <<"-scan-type", "connect">>

\* The three nested `not in cmd` tests and the two appends.            (65-69)
\* (Variant: the pair is appended without the tests.)
WithScanMode_Always(cmd) == cmd \o FallbackScanMode

WithScanMode(cmd) ==
    IF ~Contains(cmd, "--scan-type") /\ ~Contains(cmd, "-scan-type")
    THEN IF ~Contains(cmd, "--connect") /\ ~Contains(cmd, "-connect")
         THEN IF /\ ~Contains(cmd, "--so") /\ ~Contains(cmd, "-so")
                 /\ ~Contains(cmd, "--syn") /\ ~Contains(cmd, "-syn")
              THEN cmd \o FallbackScanMode
              ELSE cmd
         ELSE cmd
    ELSE cmd

NaabuCmd(args) == WithScanMode(NaabuFlags(args))

\* The checks that end run_naabu before any command is built.          (29-35)
\* (Variant: the target list is not looked for.)
NaabuInputError_NoFileTest(args, files) ==
    ~TruthyStr(args.target) /\ ~TruthyStr(args.target_list)

NaabuInputError(args, files) ==
    \/ ~TruthyStr(args.target) /\ ~TruthyStr(args.target_list)
    \/ TruthyStr(args.target_list) /\ args.target_list[1] \notin files

\* The argument values the model draws from.
Targets == {None, Some("h1")}

TargetLists == {None, Some("targets.txt"), Some("missing.txt")}

PortSpecs == {None, Some("80"), Some("-so")}

ExcludeSpecs == {None, Some("22")}

ThreadCounts == {None, Some(0), Some(4)}

Rates == {None, Some(100)}

TimeoutsMs == {None, Some(15)}

OutputFiles == {None, Some(""), Some("ports.txt")}

AdditionalArgs == {None, Some(<<"-v">>), Some(<<"-syn">>), Some(<<"-scan-type", "syn">>)}

NaabuArgs ==
    [target : Targets, target_list : TargetLists, ports : PortSpecs,
     exclude_ports : ExcludeSpecs, threads : ThreadCounts, rate : Rates,
     timeout : TimeoutsMs, json_output : BOOLEAN, output_file : OutputFiles,
     silent : BOOLEAN, additional_args : AdditionalArgs]

NoArgs ==
    [target |-> None, target_list |-> None, ports |-> None, exclude_ports |-> None,
     threads |-> None, rate |-> None, timeout |-> None, json_output |-> FALSE,
     output_file |-> None, silent |-> FALSE, additional_args |-> None]

ExistingFiles == {"targets.txt"}

NaabuIdle ==
    /\ nb_pc = "idle"
    /\ nb_args = NoArgs
    /\ nb_files = {}
    /\ nb_cmd = <<>>
    /\ nb_result = "none"

\* run_naabu has been called with some arguments.
InitNaabuVars ==
    /\ nb_pc = "start"
    /\ nb_args \in NaabuArgs
    /\ nb_files = ExistingFiles
    /\ nb_cmd = <<>>
    /\ nb_result = "none"

\* run_cmd(cmd, retry=1) meets one of these behaviours: only the two attempts
\* it can make matter.
NaabuEnvs == {env \in [Attempts -> Outcomes] : \A a \in Attempts : a > 1 => env[a] = "ok"}

\* run_naabu up to its call of run_cmd(cmd, retry=1)                   (29-73)
RunNaabu ==
    /\ nb_pc = "start"
    /\ IF NaabuInputError(nb_args, nb_files)
       THEN /\ nb_pc' = "done"
            /\ nb_result' = "False"
            /\ UNCHANGED <<nb_cmd, rcVars>>
       ELSE /\ nb_cmd' = NaabuCmd(nb_args)
            /\ nb_pc' = "run_cmd"
            /\ \E env \in NaabuEnvs :
                 RunCmdCall(Vector(nb_cmd'), FALSE, FALSE, FALSE, 1,
                            rc_platform, rc_euid, env)
            /\ UNCHANGED nb_result
    /\ UNCHANGED <<nb_args, nb_files, psVars, wfVars, exVars, restVars>>

\* A run_naabu that reports success without looking at what run_cmd gave.
NaabuReturn_IgnoresRunCmd ==
    /\ nb_pc = "run_cmd"
    /\ rc_pc = "done"
    /\ nb_pc' = "done"
    /\ nb_result' = "True"
    /\ UNCHANGED <<nb_args, nb_files, nb_cmd, rcVars, psVars, wfVars, exVars, restVars>>

\* success = run_cmd(...); return False if not success, True otherwise (73-78)
NaabuReturn ==
    /\ nb_pc = "run_cmd"
    /\ rc_pc = "done"
    /\ nb_pc' = "done"
    /\ nb_result' = (IF rc_result = "raised" THEN "raised"
                     ELSE IF rc_result = "True" THEN "True" ELSE "False")
    /\ UNCHANGED <<nb_args, nb_files, nb_cmd, rcVars, psVars, wfVars, exVars, restVars>>

\* ------------------------------------------------------------------------
\* parse_naabu_results (commands/naabu.py 80-132)
\* ------------------------------------------------------------------------
\* Text is a sequence of one-character strings.
Whitespace == {" ", "\n"}

DigitChars == {"0", "1", "2", "3", "4", "5", "6", "7", "8", "9"}

\* str.strip()
RECURSIVE LStrip(_)
LStrip(s) == IF s # <<>> /\ Head(s) \in Whitespace THEN LStrip(Tail(s)) ELSE s

RECURSIVE RStrip(_)
RStrip(s) == IF s # <<>> /\ s[Len(s)] \in Whitespace
             THEN RStrip(SubSeq(s, 1, Len(s) - 1)) ELSE s

Strip(s) == RStrip(LStrip(s))

\* json.loads on the JSON the result files are made of: integers, strings
\* without escapes, arrays and objects, with whitespace between the tokens.
\* A parse gives [ok, pos, out, items]: whether it succeeded, the index after
\* the value, the value in canonical form (its text without insignificant
\* whitespace) and, for an array, its elements.
ParseFail == [ok |-> FALSE, pos |-> 0, out |-> <<>>, items |-> <<>>]

ParseOk(p, o, its) == [ok |-> TRUE, pos |-> p, out |-> o, items |-> its]

RECURSIVE SkipWs(_, _)
SkipWs(s, i) == IF i <= Len(s) /\ s[i] \in Whitespace THEN SkipWs(s, i + 1) ELSE i

RECURSIVE ScanDigits(_, _)
ScanDigits(s, i) == IF i <= Len(s) /\ s[i] \in DigitChars THEN ScanDigits(s, i + 1) ELSE i

\* -?(0|[1-9][0-9]*) starting at s[i]
ParseNumber(s, i) ==
    LET j == IF s[i] = "-" THEN i + 1 ELSE i
    IN  IF j > Len(s) \/ s[j] \notin DigitChars THEN ParseFail
        ELSE IF s[j] = "0" THEN ParseOk(j + 1, SubSeq(s, i, j), <<>>)
        ELSE ParseOk(ScanDigits(s, j), SubSeq(s, i, ScanDigits(s, j) - 1), <<>>)

\* The index of the quote that closes a string, 0 when there is none; a
\* control character inside a string is an error.
RECURSIVE ClosingQuote(_, _)
ClosingQuote(s, i) ==
    IF i > Len(s) \/ s[i] = "\n" THEN 0
    ELSE IF s[i] = "\"" THEN i
    ELSE ClosingQuote(s, i + 1)

\* A string starting at the quote s[i]
ParseString(s, i) ==
    LET j == ClosingQuote(s, i + 1)
    IN  IF j = 0 THEN ParseFail ELSE ParseOk(j + 1, SubSeq(s, i, j), <<>>)

RECURSIVE ParseValue(_, _)
RECURSIVE ParseElements(_, _, _, _)
RECURSIVE ParseMembers(_, _, _)

\* The elements of an array after `[`, up to the closing `]`.
ParseElements(s, i, out, items) ==
    LET v == ParseValue(s, i)
        m == SkipWs(s, v.pos)
    IN  IF ~v.ok \/ m > Len(s) THEN ParseFail
        ELSE IF s[m] = ","
             THEN ParseElements(s, m + 1, out \o v.out \o <<",">>, Append(items, v.out))
        ELSE IF s[m] = "]"
             THEN ParseOk(m + 1, out \o v.out \o <<"]">>, Append(items, v.out))
        ELSE ParseFail

\* The members of an object after `{`, up to the closing `}`.
ParseMembers(s, i, out) ==
    LET k == SkipWs(s, i)
        key == IF k <= Len(s) /\ s[k] = "\"" THEN ParseString(s, k) ELSE ParseFail
        c == SkipWs(s, key.pos)
        v == IF key.ok /\ c <= Len(s) /\ s[c] = ":" THEN ParseValue(s, c + 1) ELSE ParseFail
        m == SkipWs(s, v.pos)
    IN  IF ~v.ok \/ m > Len(s) THEN ParseFail
        ELSE IF s[m] = ","
             THEN ParseMembers(s, m + 1, out \o key.out \o <<":">> \o v.out \o <<",">>)
        ELSE IF s[m] = "}"
             THEN ParseOk(m + 1, out \o key.out \o <<":">> \o v.out \o <<"}">>, <<>>)
        ELSE ParseFail

\* One JSON value starting at or after s[i]
ParseValue(s, i) ==
    LET j == SkipWs(s, i)
    IN  IF j > Len(s) THEN ParseFail
        ELSE IF s[j] = "["
             THEN IF SkipWs(s, j + 1) <= Len(s) /\ s[SkipWs(s, j + 1)] = "]"
                  THEN ParseOk(SkipWs(s, j + 1) + 1, <<"[", "]">>, <<>>)
                  ELSE ParseElements(s, j + 1, <<"[">>, <<>>)
        ELSE IF s[j] = "{"
             THEN IF SkipWs(s, j + 1) <= Len(s) /\ s[SkipWs(s, j + 1)] = "}"
                  THEN ParseOk(SkipWs(s, j + 1) + 1, <<"{", "}">>, <<>>)
                  ELSE ParseMembers(s, j + 1, <<"{">>)
        ELSE IF s[j] = "\"" THEN ParseString(s, j)
        ELSE IF s[j] \in DigitChars \cup {"-"} THEN ParseNumber(s, j)
        ELSE ParseFail

\* json.loads(s): the whole text must be one value; otherwise JSONDecodeError.
JsonLoads(s) ==
    LET v == ParseValue(s, 1)
    IN  IF v.ok /\ SkipWs(s, v.pos) > Len(s) THEN v ELSE ParseFail

\* `for line in f`: the lines of the text, each up to and including its "\n".
RECURSIVE LineEnd(_, _)
LineEnd(s, i) == IF i >= Len(s) \/ s[i] = "\n" THEN i ELSE LineEnd(s, i + 1)

RECURSIVE FileLines(_)
FileLines(s) ==
    IF s = <<>> THEN <<>>
    ELSE <<SubSeq(s, 1, LineEnd(s, 1))>> \o FileLines(SubSeq(s, LineEnd(s, 1) + 1, Len(s)))

\* The line-delimited loop: json.loads(line.strip()) appended for each line,
\* a line that raises JSONDecodeError skipped.               (107-112, 116-121)
\* (Variant: the loop ends at the first line that does not parse.)
RECURSIVE JsonLines_StopAtInvalid(_)
JsonLines_StopAtInvalid(lines) ==
    IF lines = <<>> THEN <<>>
    ELSE IF JsonLoads(Strip(Head(lines))).ok
         THEN <<JsonLoads(Strip(Head(lines))).out>> \o JsonLines_StopAtInvalid(Tail(lines))
         ELSE <<>>

RECURSIVE JsonLines(_)
JsonLines(lines) ==
    IF lines = <<>> THEN <<>>
    ELSE IF JsonLoads(Strip(Head(lines))).ok
         THEN <<JsonLoads(Strip(Head(lines))).out>> \o JsonLines(Tail(lines))
         ELSE JsonLines(Tail(lines))

\* content.strip().startswith('[') and content.strip().endswith(']')      (102)
BracketDelimited(content) ==
    /\ Strip(content) # <<>>
    /\ Head(Strip(content)) = "["
    /\ Strip(content)[Len(Strip(content))] = "]"

\* The JSON branch: the whole file as one array when it is bracket-delimited
\* and parses, line by line otherwise.                                (99-121)
\* (Variant: the handler of the failed whole-file parse reads on from the end
\* of the file, without f.seek(0).)
JsonRecords_NoSeek(content) ==
    IF BracketDelimited(content)
    THEN IF JsonLoads(content).ok
         THEN JsonLoads(content).items
         ELSE JsonLines(<<>>)
    ELSE JsonLines(FileLines(content))

JsonRecords(content) ==
    IF BracketDelimited(content)
    THEN IF JsonLoads(content).ok
         THEN JsonLoads(content).items
         ELSE JsonLines(FileLines(content))
    ELSE JsonLines(FileLines(content))

\* The text branch: the stripped lines that are not empty.           (122-127)
\* (Variant: every stripped line is appended, without `if line:`.)
RECURSIVE TextRecords_NoBlankTest(_)
TextRecords_NoBlankTest(lines) ==
    IF lines = <<>> THEN <<>>
    ELSE <<Strip(Head(lines))>> \o TextRecords_NoBlankTest(Tail(lines))

RECURSIVE TextRecords(_)
TextRecords(lines) ==
    IF lines = <<>> THEN <<>>
    ELSE IF Strip(Head(lines)) # <<>>
         THEN <<Strip(Head(lines))>> \o TextRecords(Tail(lines))
         ELSE TextRecords(Tail(lines))

\* What the call gives back.
ResultNone == [kind |-> "None", records |-> <<>>]

ResultList(records) == [kind |-> "list", records |-> records]

ResultRaised == [kind |-> "raised", records |-> <<>>]

NoResult == [kind |-> "none", records |-> <<>>]

\* `except Exception` (130): every exception the body raises is an Exception.
\* (Variant: a clause for JSONDecodeError alone.)
ParserCatches_JsonOnly(e) == e = "JSONDecodeError"

ParserCatches(e) == e \in {"JSONDecodeError", "OSError", "UnicodeDecodeError"}

\* The exception open()/read() raises on the file, "none" when it can be read.
ReadError(file) ==
    IF file.state = "unreadable" THEN "OSError"
    ELSE IF file.state = "undecodable" THEN "UnicodeDecodeError"
    ELSE "none"

\* parse_naabu_results(output_file, json_format)                      (91-132)
ParseNaabu(file, json_format) ==
    IF file.state \in {"missing", "directory"} THEN ResultNone
    ELSE IF ReadError(file) # "none"
         THEN IF ParserCatches(ReadError(file)) THEN ResultNone ELSE ResultRaised
    ELSE IF json_format THEN ResultList(JsonRecords(file.content))
    ELSE ResultList(TextRecords(FileLines(file.content)))

\* The lines result files are written from.
Corpus ==
    [obj_a |-> <<"{", "\"", "a", "\"", ":", "1", "}">>,
     not_json |-> <<" ", "n", "o", "t", "-", "j", "s", "o", "n">>,
     obj_b |-> <<" ", "{", "\"", "b", "\"", ":", "2", "}">>,
     blank |-> <<>>,
     spaces |-> <<" ", " ">>,
     arr |-> <<"[", "1", ",", " ", "2", "]">>,
     arr_open |-> <<"[", "1", ",">>,
     arr_close |-> <<"2", "]">>,
     num |-> <<"7", "0">>]

LineKeys == DOMAIN Corpus

\* The text of a file made of the given lines, each ended by "\n" except,
\* when terminated is false, the last.
RECURSIVE FileText(_, _)
FileText(keys, terminated) ==
    IF keys = <<>> THEN <<>>
    ELSE Corpus[Head(keys)]
         \o (IF Len(keys) > 1 \/ terminated THEN <<"\n">> ELSE <<>>)
         \o FileText(Tail(keys), terminated)

LineLists == UNION {[1..n -> LineKeys] : n \in 0..MaxLines}

FileStates == {"missing", "directory", "unreadable", "undecodable", "ok"}

ParserIdle ==
    /\ ps_pc = "idle"
    /\ ps_lines = <<>>
    /\ ps_file = [state |-> "missing", content |-> <<>>]
    /\ ps_json = FALSE
    /\ ps_result = NoResult

\* parse_naabu_results has been called on some path.
InitParserVars ==
    /\ ps_pc = "start"
    /\ ps_lines \in LineLists
    /\ \E st \in FileStates, terminated \in BOOLEAN :
         ps_file = [state |-> st,
                    content |-> IF st = "ok" THEN FileText(ps_lines, terminated) ELSE <<>>]
    /\ ps_json \in BOOLEAN
    /\ ps_result = NoResult

ParseNaabuResults ==
    /\ ps_pc = "start"
    /\ ps_result' = ParseNaabu(ps_file, ps_json)
    /\ ps_pc' = "done"
    /\ UNCHANGED <<ps_lines, ps_file, ps_json, rcVars, nbVars, wfVars, exVars, restVars>>

\* ------------------------------------------------------------------------
\* workflow.py, the orchestration script (index.py 963-1209)
\* ------------------------------------------------------------------------
\* The parameters of run_naabu in commands/naabu.py, which has no **kwargs.
\*                                                          (naabu.py 7-9)
RunNaabuParams == {"target", "target_list", "ports", "exclude_ports", "threads",
                   "rate", "timeout", "json_output", "output_file", "silent",
                   "additional_args"}

\* The keys of naabu_args, passed as run_naabu(**naabu_args).     (1013-1022)
PortScanKwargs == {"host", "p", "o", "json", "silent"}

\* Python raises TypeError for a keyword no parameter takes. A module with the
\* signature of the command-module template, run_naabu(*args, **kwargs),
\* takes any keyword.                                                   (884)
CallRaisesTypeError(module, kwargs) ==
    module = "repository" /\ ~(kwargs \subseteq RunNaabuParams)

StageFiles == {"ports.txt", "http_services.txt", "vulnerabilities.txt", "summary.txt"}

\* os.path.join(output_dir, name)
Join(dir, name) == <<dir, name>>

\* The lines run_port_scan and run_http_probe write on failure. (1028, 1057)
FallbackPorts(target) == <<target \o ":80", target \o ":443">>

\* What a tool that succeeds leaves in its -o file.
ToolOutput == <<"finding">>

\* The commands/naabu.py the script imports: the repository's, or one with the
\* template's signature.
NaabuModules == {"repository", "template"}

ToolOutcomes == {"ok", "fail"}

WorkflowArgs ==
    [target : {"h1"}, ports : {None, Some("80")}, verbose : BOOLEAN,
     output_dir : {None, Some("out")}, update_templates : BOOLEAN]

\* naabu_module: which commands/naabu.py is installed; naabu, httpx, nuclei:
\* whether the tool's run succeeds (run_<tool> returns True or False); makedirs: whether create_output_directory
\* can create the directory; custom_dir: whether a directory given with -o
\* exists.
WorkflowEnvs ==
    [naabu_module : NaabuModules, naabu : ToolOutcomes, httpx : ToolOutcomes,
     nuclei : ToolOutcomes, makedirs : BOOLEAN, custom_dir : BOOLEAN]

NoStageReturns == [st \in {"port_scan", "http_probe", "vuln_scan"} |-> None]

WorkflowIdle ==
    /\ wf_pc = "idle"
    /\ wf_args = [target |-> "h1", ports |-> None, verbose |-> FALSE,
                  output_dir |-> None, update_templates |-> FALSE]
    /\ wf_env = [naabu_module |-> "repository", naabu |-> "ok", httpx |-> "ok",
                 nuclei |-> "ok", makedirs |-> TRUE, custom_dir |-> TRUE]
    /\ wf_handler = FALSE
    /\ wf_dir = [path |-> None, exists |-> FALSE]
    /\ wf_files = [f \in StageFiles |-> None]
    /\ wf_calls = <<>>
    /\ wf_trace = <<>>
    /\ wf_failed = {}
    /\ wf_ret = NoStageReturns
    /\ wf_exc = "none"
    /\ wf_exit = None

\* main() after parser.parse_args().                                   (1161)
InitWorkflowVars ==
    /\ wf_pc = "start"
    /\ wf_args \in WorkflowArgs
    /\ wf_env \in WorkflowEnvs
    /\ wf_handler = FALSE
    /\ wf_dir = [path |-> None, exists |-> FALSE]
    /\ wf_files = [f \in StageFiles |-> None]
    /\ wf_calls = <<>>
    /\ wf_trace = <<>>
    /\ wf_failed = {}
    /\ wf_ret = NoStageReturns
    /\ wf_exc = "none"
    /\ wf_exit = None

\* sys.exit(status)
Exit(status) ==
    /\ wf_pc' = "exit"
    /\ wf_exit' = Some(status)

\* An exception leaves a stage function; main's try is around the stages.
Raise(e) ==
    /\ wf_pc' = "handler"
    /\ wf_exc' = e

\* signal.signal(SIGINT, signal_handler); nuclei.run_nuclei(update_templates=
\* True) when asked for.                                          (1164-1169)
Setup ==
    /\ wf_pc = "start"
    /\ wf_handler' = TRUE
    /\ wf_calls' = IF wf_args.update_templates
                   THEN Append(wf_calls, [tool |-> "nuclei", input |-> None, o |-> None])
                   ELSE wf_calls
    /\ wf_pc' = "output_dir"
    /\ UNCHANGED <<wf_args, wf_env, wf_dir, wf_files, wf_trace, wf_failed, wf_ret,
                   wf_exc, wf_exit, rcVars, nbVars, psVars, exVars, restVars>>

\* output_dir = args.output_dir or create_output_directory(target_name);
\* exit status 1 when there is none.                    (994-1004, 1172-1176)
OutputDir ==
    /\ wf_pc = "output_dir"
    /\ IF wf_args.output_dir # None
       THEN /\ wf_dir' = [path |-> wf_args.output_dir, exists |-> wf_env.custom_dir]
            /\ wf_pc' = "port_scan"
            /\ UNCHANGED wf_exit
       ELSE IF wf_env.makedirs
       THEN /\ wf_dir' = [path |-> Some("results_" \o wf_args.target), exists |-> TRUE]
            /\ wf_pc' = "port_scan"
            /\ UNCHANGED wf_exit
       ELSE /\ Exit(1)
            /\ UNCHANGED wf_dir
    /\ UNCHANGED <<wf_args, wf_env, wf_handler, wf_files, wf_calls, wf_trace,
                   wf_failed, wf_ret, wf_exc, rcVars, nbVars, psVars, exVars, restVars>>

\* A stage function is called.                           (1185, 1188, 1191, 1195)
EnterStage(stage) ==
    /\ wf_pc = stage
    /\ wf_trace' = Append(wf_trace, stage)
    /\ wf_pc' = "in_" \o stage
    /\ UNCHANGED <<wf_args, wf_env, wf_handler, wf_dir, wf_files, wf_calls,
                   wf_failed, wf_ret, wf_exc, wf_exit, rcVars, nbVars, psVars, exVars, restVars>>

EnterPortScan == EnterStage("port_scan")

EnterHttpProbe == EnterStage("http_probe")

EnterVulnScan == EnterStage("vuln_scan")

EnterSummary == EnterStage("summary")

\* open(path, "w") and write: FileNotFoundError when the directory is missing.
CanWrite == wf_dir.exists

\* run_port_scan(args.target, output_dir, args.ports, args.verbose) (1006-1031)
PortScan ==
    /\ wf_pc = "in_port_scan"
    /\ IF CallRaisesTypeError(wf_env.naabu_module, PortScanKwargs)
       THEN /\ Raise("TypeError")
            /\ UNCHANGED <<wf_files, wf_calls, wf_failed, wf_ret>>
       ELSE /\ wf_calls' = Append(wf_calls, [tool |-> "naabu",
                                             input |-> Some(wf_args.target),
                                             o |-> Some(Join(wf_dir.path[1], "ports.txt"))])
            /\ IF wf_env.naabu = "ok"
               THEN /\ wf_files' = [wf_files EXCEPT !["ports.txt"] = Some(ToolOutput)]
                    /\ wf_ret' = [wf_ret EXCEPT !["port_scan"] =
                                      Some(Join(wf_dir.path[1], "ports.txt"))]
                    /\ wf_pc' = "http_probe"
                    /\ UNCHANGED <<wf_failed, wf_exc>>
               ELSE /\ wf_failed' = wf_failed \cup {"port_scan"}
                    /\ IF CanWrite
                       THEN /\ wf_files' = [wf_files EXCEPT !["ports.txt"] =
                                                Some(FallbackPorts(wf_args.target))]
                            /\ wf_ret' = [wf_ret EXCEPT !["port_scan"] =
                                              Some(Join(wf_dir.path[1], "ports.txt"))]
                            /\ wf_pc' = "http_probe"
                            /\ UNCHANGED wf_exc
                       ELSE /\ Raise("FileNotFoundError")
                            /\ UNCHANGED <<wf_files, wf_ret>>
    /\ UNCHANGED <<wf_args, wf_env, wf_handler, wf_dir, wf_trace, wf_exit,
                   rcVars, nbVars, psVars, exVars, restVars>>

\* run_http_probe(ports_file, output_dir, args.verbose)          (1033-1059)
\* On failure the file is opened for writing and the f-string then reads
\* `target`, a name run_http_probe does not have: NameError.
\* (Variant: main goes from the probe to the summary.)
HttpProbe_SkipsVulnScan ==
    /\ wf_pc = "in_http_probe"
    /\ wf_calls' = Append(wf_calls, [tool |-> "httpx",
                                     input |-> wf_ret["port_scan"],
                                     o |-> Some(Join(wf_dir.path[1], "http_services.txt"))])
    /\ IF wf_env.httpx = "ok"
       THEN /\ wf_files' = [wf_files EXCEPT !["http_services.txt"] = Some(ToolOutput)]
            /\ wf_ret' = [wf_ret EXCEPT !["http_probe"] =
                              Some(Join(wf_dir.path[1], "http_services.txt"))]
            /\ wf_pc' = "summary"
            /\ UNCHANGED <<wf_failed, wf_exc>>
       ELSE /\ wf_failed' = wf_failed \cup {"http_probe"}
            /\ IF CanWrite
               THEN /\ wf_files' = [wf_files EXCEPT !["http_services.txt"] = Some(<<>>)]
                    /\ Raise("NameError")
               ELSE /\ Raise("FileNotFoundError")
                    /\ UNCHANGED wf_files
            /\ UNCHANGED wf_ret
    /\ UNCHANGED <<wf_args, wf_env, wf_handler, wf_dir, wf_trace, wf_exit,
                   rcVars, nbVars, psVars, exVars, restVars>>

HttpProbe ==
    /\ wf_pc = "in_http_probe"
    /\ wf_calls' = Append(wf_calls, [tool |-> "httpx",
                                     input |-> wf_ret["port_scan"],
                                     o |-> Some(Join(wf_dir.path[1], "http_services.txt"))])
    /\ IF wf_env.httpx = "ok"
       THEN /\ wf_files' = [wf_files EXCEPT !["http_services.txt"] = Some(ToolOutput)]
            /\ wf_ret' = [wf_ret EXCEPT !["http_probe"] =
                              Some(Join(wf_dir.path[1], "http_services.txt"))]
            /\ wf_pc' = "vuln_scan"
            /\ UNCHANGED <<wf_failed, wf_exc>>
       ELSE /\ wf_failed' = wf_failed \cup {"http_probe"}
            /\ IF CanWrite
               THEN /\ wf_files' = [wf_files EXCEPT !["http_services.txt"] = Some(<<>>)]
                    /\ Raise("NameError")
               ELSE /\ Raise("FileNotFoundError")
                    /\ UNCHANGED wf_files
            /\ UNCHANGED wf_ret
    /\ UNCHANGED <<wf_args, wf_env, wf_handler, wf_dir, wf_trace, wf_exit,
                   rcVars, nbVars, psVars, exVars, restVars>>

\* run_vulnerability_scan(http_file, output_dir, ...)             (1061-1093)
\* os.makedirs(nuclei_resp_dir, exist_ok=True) creates output_dir as well.
VulnScan ==
    /\ wf_pc = "in_vuln_scan"
    /\ wf_dir' = [wf_dir EXCEPT !.exists = TRUE]
    /\ wf_calls' = Append(wf_calls, [tool |-> "nuclei",
                                     input |-> wf_ret["http_probe"],
                                     o |-> Some(Join(wf_dir.path[1], "vulnerabilities.txt"))])
    /\ IF wf_env.nuclei = "ok"
       THEN /\ wf_files' = [wf_files EXCEPT !["vulnerabilities.txt"] = Some(ToolOutput)]
            /\ UNCHANGED wf_failed
       ELSE /\ wf_failed' = wf_failed \cup {"vuln_scan"}
            /\ UNCHANGED wf_files
    /\ wf_ret' = [wf_ret EXCEPT !["vuln_scan"] =
                      Some(Join(wf_dir.path[1], "vulnerabilities.txt"))]
    /\ wf_pc' = "summary"
    /\ UNCHANGED <<wf_args, wf_env, wf_handler, wf_trace, wf_exc, wf_exit,
                   rcVars, nbVars, psVars, exVars, restVars>>

\* len([l for l in f.readlines() if l.strip()]) when the file exists, else 0
LineCount(file) == IF file = None THEN 0 ELSE Len(file[1])

\* generate_summary(output_dir, args.target), then main returns: status 0.
\* There is no reporter module, so the basic summary is written; an error
\* while writing it is caught inside generate_summary.     (1095-1148, 1195)
Summary ==
    /\ wf_pc = "in_summary"
    /\ wf_files' = IF CanWrite
                   THEN [wf_files EXCEPT !["summary.txt"] =
                            Some(<<"Open ports: " \o Str(LineCount(wf_files["ports.txt"])),
                                   "HTTP services: "
                                       \o Str(LineCount(wf_files["http_services.txt"])),
                                   "Vulnerabilities found: "
                                       \o Str(LineCount(wf_files["vulnerabilities.txt"]))>>)]
                   ELSE wf_files
    /\ Exit(0)
    /\ UNCHANGED <<wf_args, wf_env, wf_handler, wf_dir, wf_calls, wf_trace,
                   wf_failed, wf_ret, wf_exc, rcVars, nbVars, psVars, exVars, restVars>>

\* except Exception as e: ... sys.exit(1)                         (1201-1205)
\* (Variant: the handler reports the error and main returns.)
TopLevelHandler_NoExit ==
    /\ wf_pc = "handler"
    /\ wf_exc # "none"
    /\ Exit(0)
    /\ UNCHANGED <<wf_args, wf_env, wf_handler, wf_dir, wf_files, wf_calls,
                   wf_trace, wf_failed, wf_ret, wf_exc, rcVars, nbVars, psVars, exVars, restVars>>

TopLevelHandler ==
    /\ wf_pc = "handler"
    /\ wf_exc # "none"
    /\ Exit(1)
    /\ UNCHANGED <<wf_args, wf_env, wf_handler, wf_dir, wf_files, wf_calls,
                   wf_trace, wf_failed, wf_ret, wf_exc, rcVars, nbVars, psVars, exVars, restVars>>

\* SIGINT while the handler is installed: signal_handler, sys.exit(130).
\*                                                                  (989-992)
Interrupt ==
    /\ wf_handler
    /\ wf_pc \notin {"idle", "exit"}
    /\ Exit(130)
    /\ UNCHANGED <<wf_args, wf_env, wf_handler, wf_dir, wf_files, wf_calls,
                   wf_trace, wf_failed, wf_ret, wf_exc, rcVars, nbVars, psVars, exVars, restVars>>

\* ------------------------------------------------------------------------
\* get_executable_path (index.py 437-456; the utils.py template 1323-1342 is
\* the same text)
\* ------------------------------------------------------------------------
\* The home directory of the user.
Home == "/home/user"

\* os.path.expanduser("~" + rest)
ExpandUser(rest) == Home \o rest

\* What can be at a path: nothing, a file without the execute permission, an
\* executable file, a directory (which can be searched).
FileKinds == {"missing", "file", "exec", "dir"}

\* os.path.exists(path)
PathExists(kind) == kind # "missing"

\* os.access(path, os.X_OK)
AccessXOK(kind) == kind \in {"exec", "dir"}

\* shutil.which(cmd): the first directory of PATH that holds an executable
\* file named cmd, which is not a directory; None when there is none.   (440)
RECURSIVE Which(_, _, _)
Which(cmd, path, fs) ==
    IF path = <<>> THEN None
    ELSE IF fs[Head(path)] = "exec" THEN Some(Head(path) \o "/" \o cmd)
    ELSE Which(cmd, Tail(path), fs)

\* The directories of common_locations, in order.                   (445-450)
\* (Variant: the system directories come before the user's.)
CommonDirs_SystemFirst ==
    <<"/usr/local/bin", "/usr/bin", ExpandUser("/go/bin"), ExpandUser("/.local/bin")>>

CommonDirs ==
    <<ExpandUser("/go/bin"), ExpandUser("/.local/bin"), "/usr/local/bin", "/usr/bin">>

\* for location in common_locations: the first that exists and can be
\* executed; None when the loop ends.                                (452-456)
RECURSIVE FirstLocation(_, _, _)
FirstLocation(cmd, dirs, fs) ==
    IF dirs = <<>> THEN None
    ELSE IF PathExists(fs[Head(dirs)]) /\ AccessXOK(fs[Head(dirs)])
         THEN Some(Head(dirs) \o "/" \o cmd)
    ELSE FirstLocation(cmd, Tail(dirs), fs)

\* get_executable_path(cmd)                                          (437-456)
ExecutablePath(cmd, path, fs) ==
    IF Which(cmd, path, fs) # None
    THEN Which(cmd, path, fs)
    ELSE FirstLocation(cmd, CommonDirs, fs)

\* The directories the model knows: the four common ones and one more.
KnownDirs == {CommonDirs[i] : i \in DOMAIN CommonDirs} \cup {"/opt/tools/bin"}

\* The values of PATH the model draws from.
SearchPaths == {<<>>, <<"/opt/tools/bin">>, <<"/usr/local/bin", "/usr/bin">>,
                <<"/opt/tools/bin", "/usr/bin">>}

ToolNames == {"naabu", "httpx"}

ExecIdle ==
    /\ ex_pc = "idle"
    /\ ex_cmd = "naabu"
    /\ ex_path = <<>>
    /\ ex_fs = [d \in KnownDirs |-> "missing"]
    /\ ex_result = None

\* get_executable_path has been called on some machine.
InitExecVars ==
    /\ ex_pc = "start"
    /\ ex_cmd \in ToolNames
    /\ ex_path \in SearchPaths
    /\ ex_fs \in [KnownDirs -> FileKinds]
    /\ ex_result = None

GetExecutablePath ==
    /\ ex_pc = "start"
    /\ ex_result' = Some(ExecutablePath(ex_cmd, ex_path, ex_fs))
    /\ ex_pc' = "done"
    /\ UNCHANGED <<ex_cmd, ex_path, ex_fs, rcVars, nbVars, psVars, wfVars, restVars>>

\* ------------------------------------------------------------------------
\* find_tool_path and verify_tool_works (mtscan.py 69-142)
\* ------------------------------------------------------------------------
\* os.path.expanduser('~') of the user who runs the menu.
MenuHome == "/home/user"

\* search_paths, with the Kali name of httpx inserted at index 1.     (72-84)
SearchPathList(tool) ==
    LET paths == <<"/usr/bin/" \o tool, "/usr/local/bin/" \o tool, "/snap/bin/" \o tool,
                   MenuHome \o "/go/bin/" \o tool, "/root/go/bin/" \o tool,
                   MenuHome \o "/.local/bin/" \o tool, "/opt/" \o tool \o "/" \o tool>>
    IN  IF tool = "httpx"
        THEN <<paths[1], "/usr/bin/httpx-toolkit">> \o SubSeq(paths, 2, Len(paths))
        ELSE paths

\* The flags verify_tool_works tries, in order.                         (128)
VersionFlags == <<"--version", "-version", "-v", "--help", "-h">>

\* What can be at a path: nothing, a file without the execute permission, an
\* executable that fails on every flag, one that answers -h only, one that
\* answers every flag.
ToolKinds == {"missing", "not_exec", "broken", "help_only", "works"}

\* subprocess.run([tool_path, flag], timeout=5): exit code zero, another exit
\* code, or an exception (no such file, permission denied, timeout). (130-139)
RunOutcome(kind, flag, style) ==
    IF kind \in {"missing", "not_exec"} THEN "raises"
    ELSE IF kind = "works" THEN "zero"
    ELSE IF kind = "help_only" /\ flag = "-h" THEN "zero"
    ELSE style

\* The runs of verify_tool_works(path) from flag number i on: it stops at the
\* first exit code zero.                                             (128-140)
RECURSIVE VerifyRuns(_, _, _, _)
VerifyRuns(path, kind, style, i) ==
    IF i > Len(VersionFlags) THEN <<>>
    ELSE LET o == RunOutcome(kind, VersionFlags[i], style)
         IN  <<[path |-> path, flag |-> VersionFlags[i], outcome |-> o]>>
             \o (IF o = "zero" THEN <<>> ELSE VerifyRuns(path, kind, style, i + 1))

\* verify_tool_works(path): True iff one of its runs gave exit code zero.
\* (Variant: True as soon as a run ends without an exception.)
VerifyToolWorks_AnyExit(runs) ==
    \E i \in DOMAIN runs : runs[i].outcome \in {"zero", "nonzero"}

VerifyToolWorks(runs) == \E i \in DOMAIN runs : runs[i].outcome = "zero"

\* os.path.isfile(path) and os.access(path, os.X_OK)                (105, 116)
IsExecutableFile(kind) == kind \in {"broken", "help_only", "works"}

\* The paths of the model for a tool: search_paths and two more.
OtherPaths(tool) == {"/opt/tools/bin/" \o tool, "/srv/go/bin/" \o tool}

ToolPaths(tool) ==
    {SearchPathList(tool)[i] : i \in DOMAIN SearchPathList(tool)} \cup OtherPaths(tool)

\* The kind of what is at a path.
KindAt(path) == ft_env.fs[path]

\* One verify_tool_works(path) call and its result.
Verify(path) ==
    LET runs == VerifyRuns(path, KindAt(path), ft_env.style, 1)
    IN  /\ ft_runs' = ft_runs \o runs
        /\ ft_verified' = Append(ft_verified, [path |-> path, ok |-> VerifyToolWorks(runs)])

\* What the last verify_tool_works call returned.
Verified == ft_verified'[Len(ft_verified')].ok

FindReturn(value) ==
    /\ ft_pc' = "done"
    /\ ft_result' = Some(value)

\* if UTILS_AVAILABLE: path_result = get_executable_path(tool_name) ... (87-90)
TryUtils ==
    /\ ft_pc = "utils"
    /\ IF ft_env.utils_available /\ ft_env.utils # None
       THEN /\ Verify(ft_env.utils[1])
            /\ IF Verified
               THEN FindReturn(ft_env.utils)
               ELSE ft_pc' = "which" /\ UNCHANGED ft_result
       ELSE /\ ft_pc' = "which"
            /\ UNCHANGED <<ft_verified, ft_runs, ft_result>>
    /\ UNCHANGED <<ft_tool, ft_env, ft_idx, notFt>>

\* subprocess.run(['which', tool_name]) and its result                (93-100)
TryWhich ==
    /\ ft_pc = "which"
    /\ IF ft_env.which # None
       THEN /\ Verify(ft_env.which[1])
            /\ IF Verified
               THEN FindReturn(ft_env.which)
               ELSE ft_pc' = "paths" /\ UNCHANGED ft_result
       ELSE /\ ft_pc' = "paths"
            /\ UNCHANGED <<ft_verified, ft_runs, ft_result>>
    /\ UNCHANGED <<ft_tool, ft_env, ft_idx, notFt>>

\* One iteration of `for path in search_paths`                       (103-107)
TryPath ==
    /\ ft_pc = "paths"
    /\ IF ft_idx > Len(SearchPathList(ft_tool))
       THEN /\ ft_pc' = "gopath"
            /\ UNCHANGED <<ft_idx, ft_verified, ft_runs, ft_result>>
       ELSE LET path == SearchPathList(ft_tool)[ft_idx]
            IN  IF IsExecutableFile(KindAt(path))
                THEN /\ Verify(path)
                     /\ IF Verified
                        THEN FindReturn(Some(path)) /\ UNCHANGED ft_idx
                        ELSE /\ ft_idx' = ft_idx + 1
                             /\ UNCHANGED <<ft_pc, ft_result>>
                ELSE /\ ft_idx' = ft_idx + 1
                     /\ UNCHANGED <<ft_pc, ft_verified, ft_runs, ft_result>>
    /\ UNCHANGED <<ft_tool, ft_env, notFt>>

\* `go env GOPATH` and the tool in its bin directory; return None    (110-122)
TryGoPath ==
    /\ ft_pc = "gopath"
    /\ IF ft_env.gopath # None
          /\ IsExecutableFile(KindAt(ft_env.gopath[1] \o "/bin/" \o ft_tool))
       THEN /\ Verify(ft_env.gopath[1] \o "/bin/" \o ft_tool)
            /\ IF Verified
               THEN FindReturn(Some(ft_env.gopath[1] \o "/bin/" \o ft_tool))
               ELSE FindReturn(None)
       ELSE /\ FindReturn(None)
            /\ UNCHANGED <<ft_verified, ft_runs>>
    /\ UNCHANGED <<ft_tool, ft_env, ft_idx, notFt>>

\* The machines the model draws from: at most two paths hold something.
FileSystems(tool) ==
    UNION {{[q \in ToolPaths(tool) |-> IF q \in held THEN kinds[q] ELSE "missing"] :
               kinds \in [held -> ToolKinds \ {"missing"}]} :
           held \in {h \in SUBSET ToolPaths(tool) : Cardinality(h) <= MaxFiles}}

FindToolEnvs(tool) ==
    [utils_available : BOOLEAN,
     utils : {None, Some("/usr/bin/" \o tool), Some("/opt/tools/bin/" \o tool)},
     which : {None, Some("/usr/bin/" \o tool), Some("/opt/tools/bin/" \o tool)},
     gopath : {None, Some(MenuHome \o "/go"), Some("/srv/go")},
     fs : FileSystems(tool),
     style : {"nonzero", "raises"}]

FindToolIdle ==
    /\ ft_pc = "idle"
    /\ ft_tool = "naabu"
    /\ ft_env = [utils_available |-> FALSE, utils |-> None, which |-> None,
                 gopath |-> None, fs |-> [q \in ToolPaths("naabu") |-> "missing"],
                 style |-> "nonzero"]
    /\ ft_idx = 1
    /\ ft_verified = <<>>
    /\ ft_runs = <<>>
    /\ ft_result = None

\* find_tool_path has been called on some machine. The lookups name only
\* executables that exist.
InitFindToolVars ==
    /\ ft_pc = "utils"
    /\ ft_tool \in {"naabu", "httpx"}
    /\ ft_env \in FindToolEnvs(ft_tool)
    /\ ft_env.utils # None =>
         ft_env.utils_available /\ IsExecutableFile(KindAt(ft_env.utils[1]))
    /\ ft_env.which # None => IsExecutableFile(KindAt(ft_env.which[1]))
    /\ ft_idx = 1
    /\ ft_verified = <<>>
    /\ ft_runs = <<>>
    /\ ft_result = None

\* ------------------------------------------------------------------------
\* create_scan_session_dir (mtscan.py 284-293), called first thing by run_scan
\* (324-327)
\* ------------------------------------------------------------------------
\* The clock counts ticks; datetime.now().strftime("%Y%m%d_%H%M%S") shows whole
\* seconds only.                                                         (287)
TicksPerSecond == 2

MaxTicks == 4

MaxSessions == 2

Timestamp(now) == Str(now \div TicksPerSecond)

\* A target is text made of these pieces.
TargetPieces == {"http://", "https://", "/", "_", "h1", "a"}

\* target.replace("http://", "").replace("https://", "").replace("/", "_") (289)
RECURSIVE CleanTarget(_)
CleanTarget(pieces) ==
    IF pieces = <<>> THEN ""
    ELSE (IF Head(pieces) \in {"http://", "https://"} THEN ""
          ELSE IF Head(pieces) = "/" THEN "_"
          ELSE Head(pieces))
         \o CleanTarget(Tail(pieces))

\* os.path.join("scan_results", f"{scan_type}_{clean_target}_{timestamp}")
\*                                                            (278, 290-291)
SessionDir(scan_type, target, now) ==
    "scan_results/" \o scan_type \o "_" \o CleanTarget(target) \o "_" \o Timestamp(now)

ScanTypes == {"naabu", "httpx", "nuclei", "full"}

ScanTargets == {<<"h1">>, <<"https://", "h1">>, <<"h1", "/", "a">>, <<"h1", "_", "a">>}

SessionIdle ==
    /\ sd_now = 0
    /\ sd_sessions = <<>>
    /\ sd_dirs = {}

\* Time passes between two menu selections.
Tick ==
    /\ sd_now < MaxTicks
    /\ sd_now' = sd_now + 1
    /\ UNCHANGED <<sd_sessions, sd_dirs, notSd>>

\* run_scan(scan_type, target) up to the return of create_scan_session_dir:
\* os.makedirs(session_dir, exist_ok=True) accepts a directory that is there
\* already. The call itself takes one tick.                  (284-293, 327)
CreateScanSessionDir ==
    /\ Len(sd_sessions) < MaxSessions
    /\ sd_now < MaxTicks
    /\ \E scan_type \in ScanTypes, target \in ScanTargets :
         LET dir == SessionDir(scan_type, target, sd_now)
         IN  /\ sd_sessions' = Append(sd_sessions,
                                      [scan_type |-> scan_type, target |-> target,
                                       at |-> sd_now, dir |-> dir])
             /\ sd_dirs' = sd_dirs \cup {dir}
    /\ sd_now' = sd_now + 1
    /\ UNCHANGED notSd

\* ------------------------------------------------------------------------
\* run_cmd of the utils.py template (index.py 1232-1297), as a function from
\* the call to what it does
\* ------------------------------------------------------------------------
\* if use_sudo and os.geteuid() != 0 and platform.system().lower() !=
\* "windows": cmd = ["sudo"] + ...; os.geteuid does not exist on Windows and
\* the test is outside the try.                                   (1236-1237)
\* (Variant: the effective user id is not looked at.)
UtilsSudoPrefix_NoEuidTest(cmd, use_sudo, platform, euid) ==
    [raised |-> FALSE,
     cmd |-> IF use_sudo /\ platform # "windows" THEN WithSudo(cmd) ELSE cmd]

UtilsSudoPrefix(cmd, use_sudo, platform, euid) ==
    IF use_sudo /\ ~HasGeteuid(platform)
    THEN [raised |-> TRUE, cmd |-> cmd]
    ELSE [raised |-> FALSE,
          cmd |-> IF use_sudo /\ euid # 0 /\ platform # "windows"
                  THEN WithSudo(cmd)
                  ELSE cmd]

\* What a call has done: the Popen calls, the sleeps, the state of the child
\* of each attempt and the value returned.
NoTrace == [spawned |-> <<>>, sleeps |-> <<>>, child |-> NoChildren, result |-> "none"]

RECURSIVE UtilsLoop(_, _, _, _, _, _, _)
\* for attempt in range(retry + 1): ...; return False              (1239-1297)
UtilsLoop(cmd, shell, check, retry, env, attempt, tr) ==
    IF attempt >= retry + 1
    THEN [tr EXCEPT !.result = "False"]
    ELSE LET popen == [tr EXCEPT !.spawned = Append(@, [cmd |-> cmd, shell |-> shell])]
             \* if attempt < retry: time.sleep(2); continue -- else return False
             Failed(t) ==
                 IF attempt < retry
                 THEN UtilsLoop(cmd, shell, check, retry, env, attempt + 1,
                                [t EXCEPT !.sleeps = Append(@, SleepSeconds)])
                 ELSE [t EXCEPT !.result = "False"]
         IN CASE env[attempt] = "spawn_exc" ->
                     \* Popen raises: except Exception            (1287-1294)
                     Failed(popen)
              [] env[attempt] = "ok" ->
                     \* returncode == 0: return True                   (1265)
                     [popen EXCEPT !.child[attempt] = "exited", !.result = "True"]
              [] env[attempt] = "nonzero" ->
                     \* retry; raise CalledProcessError when check is set,
                     \* which the outer handler turns into False (1251-1263,
                     \* 1278-1285)
                     Failed([popen EXCEPT !.child[attempt] = "exited"])
              [] env[attempt] = "timeout" ->
                     \* process.kill(); process.wait()            (1266-1277)
                     Failed([popen EXCEPT !.child[attempt] = "reaped"])

\* run_cmd(cmd, shell, check, use_sudo, timeout, retry) of the template
UtilsRunCmd(cmd, shell, check, use_sudo, retry, platform, euid, env) ==
    LET sudo == UtilsSudoPrefix(cmd, use_sudo, platform, euid)
    IN IF sudo.raised
       THEN [NoTrace EXCEPT !.result = "raised"]
       ELSE UtilsLoop(sudo.cmd, shell, check, retry, env, 0, NoTrace)


\* ------------------------------------------------------------------------
\* The real-time output loop of run_scan (mtscan.py 409-467) and the child it
\* reads from
\* ------------------------------------------------------------------------
\* The number of lines a pipe holds before a write to it blocks.
PipeCapacity == 1

\* The number of lines a child writes at most.
MaxWrites == 3

Streams == {"stdout", "stderr"}

\* The text of a line, without its newline.
PollLineTexts == {<<"a">>, <<"b", " ">>, <<>>}

ChildWrites == [stream : Streams, line : PollLineTexts]

RECURSIVE SeqsUpTo(_, _)
\* The sequences over S of length n at most.
SeqsUpTo(S, n) ==
    IF n = 0 THEN {<<>>}
    ELSE LET shorter == SeqsUpTo(S, n - 1)
         IN shorter \cup {Append(s, x) : s \in {t \in shorter : Len(t) = n - 1}, x \in S}

NoLines == [s \in Streams |-> <<>>]

PollIdle ==
    /\ pl_pc = "idle"
    /\ pl_script = <<>>
    /\ pl_written = NoLines
    /\ pl_pipe = NoLines
    /\ pl_exited = FALSE
    /\ pl_lines = NoLines

\* subprocess.Popen(cmd, stdout=PIPE, stderr=PIPE, text=True, bufsize=1) has
\* started a child that will write some lines and exit.            (414-426)
InitPollVars ==
    /\ pl_pc = "poll"
    /\ pl_script \in SeqsUpTo(ChildWrites, MaxWrites)
    /\ pl_written = NoLines
    /\ pl_pipe = NoLines
    /\ pl_exited = FALSE
    /\ pl_lines = NoLines

\* The child writes its next line; the write blocks while the pipe is full.
ChildWrite ==
    /\ pl_pc # "idle"
    /\ ~pl_exited
    /\ pl_script # <<>>
    /\ LET w == Head(pl_script)
       IN /\ Len(pl_pipe[w.stream]) < PipeCapacity
          /\ pl_pipe' = [pl_pipe EXCEPT ![w.stream] = Append(@, w.line)]
          /\ pl_written' = [pl_written EXCEPT ![w.stream] = Append(@, w.line)]
    /\ pl_script' = Tail(pl_script)
    /\ UNCHANGED <<pl_pc, pl_exited, pl_lines, notPl>>

\* The child exits once it has written everything.
ChildExit ==
    /\ pl_pc # "idle"
    /\ ~pl_exited
    /\ pl_script = <<>>
    /\ pl_exited' = TRUE
    /\ UNCHANGED <<pl_pc, pl_script, pl_written, pl_pipe, pl_lines, notPl>>

\* while process.poll() is None:                                        (429)
Poll ==
    /\ pl_pc = "poll"
    /\ pl_pc' = IF pl_exited THEN "communicate" ELSE "read_stdout"
    /\ UNCHANGED <<pl_script, pl_written, pl_pipe, pl_exited, pl_lines, notPl>>

\* stream.readline(): the next line of the pipe; "" at end of file, when the
\* pipe is empty and the child has closed it; it blocks while the pipe is
\* empty and open. if line: lines.append(line.rstrip())
ReadLine(stream, next) ==
    /\ IF pl_pipe[stream] # <<>>
       THEN /\ pl_lines' = [pl_lines EXCEPT ![stream] = Append(@, RStrip(Head(pl_pipe[stream])))]
            /\ pl_pipe' = [pl_pipe EXCEPT ![stream] = Tail(@)]
       ELSE /\ pl_exited
            /\ UNCHANGED <<pl_lines, pl_pipe>>
    /\ pl_pc' = next
    /\ UNCHANGED <<pl_script, pl_written, pl_exited, notPl>>

\* line = process.stdout.readline() ...                             (431-441)
ReadStdout == pl_pc = "read_stdout" /\ ReadLine("stdout", "read_stderr")

\* err_line = process.stderr.readline() ...                         (443-449)
ReadStderr == pl_pc = "read_stderr" /\ ReadLine("stderr", "poll")

\* for line in remaining.split('\n'): if line.strip(): lines.append(line)
Remaining(lines) == SelectSeq(lines, LAMBDA l : Strip(l) # <<>>)

\* remaining_stdout, remaining_stderr = process.communicate() and the two
\* loops over what it gave                                          (451-463)
Communicate ==
    /\ pl_pc = "communicate"
    /\ pl_exited
    /\ pl_lines' = [s \in Streams |-> pl_lines[s] \o Remaining(pl_pipe[s])]
    /\ pl_pipe' = NoLines
    /\ pl_pc' = "done"
    /\ UNCHANGED <<pl_script, pl_written, pl_exited, notPl>>


\* ------------------------------------------------------------------------
\* update_shell_rc_files (index.py 295-370)
\* ------------------------------------------------------------------------
\* The number of entries of paths_to_add at most.
MaxPaths == 2

\* The number of times the function is applied in a row.
MaxApplications == 2

\* possible_rc_files, relative to the home directory.              (308-313)
RcBash == ".bashrc"

RcZsh == ".zshrc"

RcFish == ".config/fish/config.fish"

RcProfile == ".profile"

RcFiles == {RcBash, RcZsh, RcFish, RcProfile}

\* Values of $SHELL, and the shell names each of them contains.
Shells == {"/bin/zsh", "/bin/bash", "/usr/bin/fish", "/bin/sh", ""}

\* name in shell
Mentions(shell, name) ==
    <<shell, name>> \in {<<"/bin/zsh", "zsh">>, <<"/bin/bash", "bash">>,
                         <<"/usr/bin/fish", "fish">>}

\* The existing ones among the given files, in order.
RECURSIVE Existing(_, _)
Existing(files, fs) ==
    IF files = <<>> THEN <<>>
    ELSE (IF fs[Head(files)] # None THEN <<Head(files)>> ELSE <<>>)
         \o Existing(Tail(files), fs)

\* shell_rc_files: the file of the detected shell, else the existing ones of
\* .bashrc and .profile; .profile is always among them.            (315-331)
ShellRcFiles(shell, fs) ==
    LET detected ==
            IF Mentions(shell, "zsh") THEN <<RcZsh>>
            ELSE IF Mentions(shell, "bash") THEN <<RcBash>>
            ELSE IF Mentions(shell, "fish") THEN <<RcFish>>
            ELSE Existing(<<RcBash, RcProfile>>, fs)
    IN IF Contains(detected, RcProfile) THEN detected ELSE Append(detected, RcProfile)

\* Text is a sequence of pieces: the characters of a path, and the fixed texts
\* the function writes, each one piece.
PathTexts == {<<"/", "g">>, <<"/", "g", "o">>}

\* "fish" in rc_file, rc_file being the full path of the file.          (341)
IsFishFile(home_fish, file) == home_fish \/ file = RcFish

\* f'set -x PATH $PATH {path}' or f'export PATH=$PATH:{path}'      (341-344)
ExportStr(fish, path) ==
    <<IF fish THEN "set -x PATH $PATH " ELSE "export PATH=$PATH:">> \o path

\* export_str in content
IsSubstring(x, content) ==
    \E i \in 1..(Len(content) - Len(x) + 1) : SubSeq(content, i, i + Len(x) - 1) = x

\* f"\n# Added by vulnerability analysis setup\n{export_str}\n"         (357)
\* (Variant: only the comment line is written.)
Appended_CommentOnly(export_str) ==
    <<"\n", "# Added by vulnerability analysis setup", "\n">>

Appended(export_str) ==
    <<"\n", "# Added by vulnerability analysis setup", "\n">> \o export_str \o <<"\n">>

\* What the loop over export_strs writes, content being what the file held
\* before the loop.                                                (353-358)
RECURSIVE Writes(_, _, _)
Writes(paths, fish, content) ==
    IF paths = <<>> THEN <<>>
    ELSE (IF IsSubstring(ExportStr(fish, Head(paths)), content)
          THEN <<>>
          ELSE Appended(ExportStr(fish, Head(paths))))
         \o Writes(Tail(paths), fish, content)

\* The file's text; "" when there is no file.                      (347-350)
Content(fs, file) == IF fs[file] = None THEN <<>> ELSE fs[file][1]

\* The rc files after the loop over the first n of shell_rc_files: a file
\* that can be opened exists afterwards (mode a+) and holds what was written;
\* an error leaves the file as it is.                              (334-363)
RECURSIVE UpdatedFs(_, _, _, _, _, _)
UpdatedFs(files, n, paths, home_fish, locked, fs) ==
    IF n = 0 THEN fs
    ELSE LET before == UpdatedFs(files, n - 1, paths, home_fish, locked, fs)
             file == files[n]
         IN IF file \in locked
            THEN before
            ELSE [before EXCEPT ![file] =
                     Some(Content(before, file)
                          \o Writes(paths, IsFishFile(home_fish, file), Content(before, file)))]

\* updated_files: the files something was written to, in order.
RECURSIVE UpdatedFiles(_, _, _, _, _)
UpdatedFiles(files, paths, home_fish, locked, fs) ==
    IF files = <<>> THEN <<>>
    ELSE (IF /\ Head(files) \notin locked
             /\ Writes(paths, IsFishFile(home_fish, Head(files)), Content(fs, Head(files))) # <<>>
          THEN <<Head(files)>>
          ELSE <<>>)
         \o UpdatedFiles(Tail(files), paths, home_fish, locked, fs)

\* What the rc files hold before the first application.
RcContents == {None, Some(<<>>), Some(Appended(ExportStr(FALSE, <<"/", "g", "o">>)))}

NoRcFiles == [f \in RcFiles |-> None]

ShellRcIdle ==
    /\ us_platform = "linux"
    /\ us_shell = ""
    /\ us_home_fish = FALSE
    /\ us_paths = <<>>
    /\ us_locked = {}
    /\ us_fs = NoRcFiles
    /\ us_log = <<>>

InitShellRcVars ==
    /\ us_platform \in Platforms
    /\ us_shell \in Shells
    /\ us_home_fish \in BOOLEAN
    /\ us_paths \in SeqsUpTo(PathTexts, MaxPaths)
    /\ us_locked \in {{}, {RcProfile}, {RcBash}}
    /\ us_fs \in [RcFiles -> RcContents]
    /\ \A f \in {RcZsh, RcFish} : us_fs[f] \in {None, Some(<<>>)}
    /\ us_log = <<>>

\* update_shell_rc_files(paths_to_add), from call to return        (295-370)
UpdateShellRcFiles ==
    /\ Len(us_log) < MaxApplications
    /\ LET files == ShellRcFiles(us_shell, us_fs)
           after == IF us_platform = "windows" THEN us_fs
                    ELSE UpdatedFs(files, Len(files), us_paths, us_home_fish, us_locked, us_fs)
           ret == IF us_platform = "windows" THEN <<>>
                  ELSE UpdatedFiles(files, us_paths, us_home_fish, us_locked, us_fs)
       IN /\ us_fs' = after
          /\ us_log' = Append(us_log, [before |-> us_fs, after |-> after, ret |-> ret])
    /\ UNCHANGED <<us_platform, us_shell, us_home_fish, us_paths, us_locked, notUs>>


\* ------------------------------------------------------------------------
\* install_security_tools and create_naabu_alternative (index.py 522-591,
\* 593-780)
\* ------------------------------------------------------------------------
\* The keys of tools_installed, in the order of the dictionary.    (530-534)
InstallOrder == <<"httpx", "nuclei", "naabu">>

InstallTools == {"httpx", "nuclei", "naabu"}

\* The tools the Linux branch tries apt-get for.                   (543-553)
AptTools == <<"nuclei", "naabu">>

\* TOOLS_INFO[...]["alternative_script"]                              (45-52)
HasAlternativeScript(tool) == tool = "naabu"

\* found: get_executable_path finds the tool; apt, go: run_cmd of the install
\* command returns True; makedirs: os.makedirs of ~/go/bin succeeds; write:
\* the script can be written and made executable.
InstallEnvs ==
    [platform : Platforms, found : [InstallTools -> BOOLEAN],
     apt : [{"nuclei", "naabu"} -> BOOLEAN], go : [InstallTools -> BOOLEAN],
     makedirs : BOOLEAN, write : BOOLEAN]

NoneInstalled == [t \in InstallTools |-> FALSE]

InstallIdle ==
    /\ it_pc = "idle"
    /\ it_env = [platform |-> "linux", found |-> NoneInstalled,
                 apt |-> [t \in {"nuclei", "naabu"} |-> FALSE],
                 go |-> NoneInstalled, makedirs |-> FALSE, write |-> FALSE]
    /\ it_idx = 1
    /\ it_installed = NoneInstalled
    /\ it_cmds = <<>>
    /\ it_alt = None
    /\ it_result = None

InitInstallVars ==
    /\ it_pc = "start"
    /\ it_env \in InstallEnvs
    /\ it_idx = 1
    /\ it_installed = NoneInstalled
    /\ it_cmds = <<>>
    /\ it_alt = None
    /\ it_result = None

\* setup_go_env(), then tools_installed[tool_name] = True for every tool
\* get_executable_path finds.                                      (526-540)
CheckInstalled ==
    /\ it_pc = "start"
    /\ it_installed' = [t \in InstallTools |-> it_env.found[t]]
    /\ it_pc' = "apt"
    /\ UNCHANGED <<it_env, it_idx, it_cmds, it_alt, it_result, notIt>>

\* The apt-get commands run for the tools not installed, in order.
RECURSIVE AptCmds(_, _)
AptCmds(tools, installed) ==
    IF tools = <<>> THEN <<>>
    ELSE (IF installed[Head(tools)] THEN <<>>
          ELSE <<[kind |-> "apt", tool |-> Head(tools), ok |-> it_env.apt[Head(tools)]]>>)
         \o AptCmds(Tail(tools), installed)

\* if platform is linux: apt-get install nuclei, naabu when not installed
\*                                                                 (543-554)
AptInstall ==
    /\ it_pc = "apt"
    /\ LET cmds == IF it_env.platform = "linux" THEN AptCmds(AptTools, it_installed) ELSE <<>>
       IN /\ it_cmds' = it_cmds \o cmds
          /\ it_installed' =
                 [t \in InstallTools |->
                     it_installed[t] \/ \E i \in DOMAIN cmds : cmds[i].tool = t /\ cmds[i].ok]
    /\ it_pc' = "go"
    /\ UNCHANGED <<it_env, it_idx, it_alt, it_result, notIt>>

\* tools_installed["naabu"] = True after create_naabu_alternative(), whatever
\* it returned.                                                    (580-581)
\* (Variant: the tool is marked when the script was created.)
MarkAfterAlternative_IfCreated(created) == created

MarkAfterAlternative(created) == TRUE

\* One round of `for tool_name, installed in tools_installed.items()`: go
\* install for a tool that is not installed.                       (557-581)
GoInstall ==
    /\ it_pc = "go"
    /\ IF it_idx > Len(InstallOrder)
       THEN /\ it_pc' = "return"
            /\ UNCHANGED <<it_idx, it_installed, it_cmds>>
       ELSE LET tool == InstallOrder[it_idx]
            IN IF it_installed[tool]
               THEN /\ it_idx' = it_idx + 1
                    /\ UNCHANGED <<it_pc, it_installed, it_cmds>>
               ELSE /\ it_cmds' = Append(it_cmds, [kind |-> "go", tool |-> tool,
                                                   ok |-> it_env.go[tool]])
                    /\ IF it_env.go[tool]
                       THEN /\ it_installed' = [it_installed EXCEPT ![tool] = TRUE]
                            /\ it_idx' = it_idx + 1
                            /\ UNCHANGED it_pc
                       ELSE IF HasAlternativeScript(tool)
                       THEN /\ it_pc' = "alternative"
                            /\ UNCHANGED <<it_idx, it_installed>>
                       ELSE /\ it_idx' = it_idx + 1
                            /\ UNCHANGED <<it_pc, it_installed>>
    /\ UNCHANGED <<it_env, it_alt, it_result, notIt>>

\* create_naabu_alternative(): os.makedirs outside the try raises into the
\* caller; an error while writing the script is caught and gives False.
\*                                                       (593-596, 769-780)
CreateNaabuAlternative ==
    /\ it_pc = "alternative"
    /\ IF ~it_env.makedirs
       THEN /\ it_pc' = "raised"
            /\ UNCHANGED <<it_idx, it_installed, it_alt>>
       ELSE /\ it_alt' = Some(it_env.write)
            /\ it_installed' = [it_installed EXCEPT
                                   !["naabu"] = MarkAfterAlternative(it_env.write)]
            /\ it_idx' = it_idx + 1
            /\ it_pc' = "go"
    /\ UNCHANGED <<it_env, it_cmds, it_result, notIt>>

\* return tools_installed                                          (583-591)
ReturnInstalled ==
    /\ it_pc = "return"
    /\ it_result' = Some(it_installed)
    /\ it_pc' = "done"
    /\ UNCHANGED <<it_env, it_idx, it_installed, it_cmds, it_alt, notIt>>


\* ------------------------------------------------------------------------
\* The command line of the orchestration script (index.py 1150-1161), parsed
\* the way argparse parses it
\* ------------------------------------------------------------------------
\* A token of a command line is a sequence of pieces. An option token is
\* written character by character, since argparse looks inside it; a value is
\* kept in larger pieces, none of which is "-".
Dash(name) == <<"-">> \o name

DashDash(name) == <<"-", "-">> \o name

\* parser.add_argument(...): the option strings of each option, whether it
\* takes a value, and -h/--help, which ArgumentParser adds itself. (1151-1159)
ScriptOptions ==
    {[dest |-> "help", strings |-> {Dash(<<"h">>), DashDash(<<"h", "e", "l", "p">>)},
      value |-> FALSE],
     [dest |-> "ports", strings |-> {Dash(<<"p">>), DashDash(<<"p", "o", "r", "t", "s">>)},
      value |-> TRUE],
     [dest |-> "templates",
      strings |-> {Dash(<<"t">>), DashDash(<<"t", "e", "m", "p", "l", "a", "t", "e", "s">>)},
      value |-> TRUE],
     [dest |-> "tags", strings |-> {DashDash(<<"t", "a", "g", "s">>)}, value |-> TRUE],
     [dest |-> "severity",
      strings |-> {DashDash(<<"s", "e", "v", "e", "r", "i", "t", "y">>)}, value |-> TRUE],
     [dest |-> "verbose",
      strings |-> {Dash(<<"v">>), DashDash(<<"v", "e", "r", "b", "o", "s", "e">>)},
      value |-> FALSE],
     [dest |-> "output_dir",
      strings |-> {Dash(<<"o">>),
                   DashDash(<<"o", "u", "t", "p", "u", "t", "-", "d", "i", "r">>)},
      value |-> TRUE],
     [dest |-> "update_templates",
      strings |-> {DashDash(<<"u", "p", "d", "a", "t", "e", "-",
                              "t", "e", "m", "p", "l", "a", "t", "e", "s">>)},
      value |-> FALSE]}

OptionStrings == UNION {o.strings : o \in ScriptOptions}

OptionOf(string) == CHOOSE o \in ScriptOptions : string \in o.strings

StartsWith(s, prefix) == Len(prefix) <= Len(s) /\ SubSeq(s, 1, Len(prefix)) = prefix

\* A token that starts with the prefix character.
OptionLike(token) == token # <<>> /\ token[1] = "-"

\* The declared options a token that is not an option string can stand for:
\* an abbreviation of a long option, or a short option with the rest of the
\* token attached.                            (argparse: _get_option_tuples)
OptionTuples(token) ==
    IF Len(token) >= 2 /\ token[2] = "-"
    THEN {[string |-> s, explicit |-> None] : s \in {x \in OptionStrings : StartsWith(x, token)}}
    ELSE {[string |-> s, explicit |-> Some(SubSeq(token, 3, Len(token)))] :
              s \in {x \in OptionStrings : x = SubSeq(token, 1, 2)}}
         \cup {[string |-> s, explicit |-> None] :
                   s \in {x \in OptionStrings : x # SubSeq(token, 1, 2) /\ StartsWith(x, token)}}

\* What argparse takes a token for.                (argparse: _parse_optional)
ParseOptional(token) ==
    IF ~OptionLike(token) \/ Len(token) = 1 THEN [kind |-> "positional"]
    ELSE IF token \in OptionStrings
    THEN [kind |-> "option", string |-> token, explicit |-> None]
    ELSE IF Cardinality(OptionTuples(token)) > 1 THEN [kind |-> "ambiguous"]
    ELSE IF OptionTuples(token) = {} THEN [kind |-> "unknown"]
    ELSE LET t == CHOOSE x \in OptionTuples(token) : TRUE
         IN [kind |-> "option", string |-> t.string, explicit |-> t.explicit]

\* The options one token sets, when the option named first has the rest of
\* the token attached: a flag is followed by further short options, an option
\* with a value takes the rest as its value. <<"error">> when the rest is
\* neither.                                     (argparse: consume_optional)
RECURSIVE Attached(_, _)
Attached(string, explicit) ==
    LET opt == OptionOf(string)
    IN IF opt.value THEN <<opt.dest>>
       ELSE IF explicit = <<>> THEN <<opt.dest>>
       ELSE IF Dash(<<Head(explicit)>>) \in OptionStrings
       THEN LET rest == Attached(Dash(<<Head(explicit)>>), Tail(explicit))
            IN IF rest = <<"error">> THEN rest ELSE <<opt.dest>> \o rest
       ELSE <<"error">>

\* parser.parse_args(argv) from token i on: "parsed" with the target, "help"
\* (usage is printed, exit status 0) or "error" (exit status 2).
RECURSIVE ParseFrom(_, _, _, _)
ParseFrom(argv, i, target, extras) ==
    IF i > Len(argv)
    THEN IF target = None \/ extras THEN [status |-> "error", target |-> target]
         ELSE [status |-> "parsed", target |-> target]
    ELSE LET p == ParseOptional(argv[i])
         IN CASE p.kind = "positional" ->
                     IF target = None
                     THEN ParseFrom(argv, i + 1, Some(argv[i]), extras)
                     ELSE ParseFrom(argv, i + 1, target, TRUE)
              [] p.kind = "unknown" -> ParseFrom(argv, i + 1, target, TRUE)
              [] p.kind = "ambiguous" -> [status |-> "error", target |-> target]
              [] p.kind = "option" ->
                     IF p.explicit # None
                     THEN LET dests == Attached(p.string, p.explicit[1])
                          IN IF dests = <<"error">>
                             THEN [status |-> "error", target |-> target]
                             ELSE IF Contains(dests, "help")
                             THEN [status |-> "help", target |-> target]
                             ELSE ParseFrom(argv, i + 1, target, extras)
                     ELSE IF OptionOf(p.string).dest = "help"
                     THEN [status |-> "help", target |-> target]
                     ELSE IF ~OptionOf(p.string).value
                     THEN ParseFrom(argv, i + 1, target, extras)
                     ELSE IF i + 1 > Len(argv) \/ OptionLike(argv[i + 1])
                     THEN [status |-> "error", target |-> target]
                     ELSE ParseFrom(argv, i + 2, target, extras)

ParseArgs(argv) == ParseFrom(argv, 1, None, FALSE)

\* ------------------------------------------------------------------------
\* The menu loop, run_scan and update_templates (mtscan.py 324-585, 913-933,
\* 1005-1080)
\* ------------------------------------------------------------------------
\* The number of scan selections in one session of the menu.
MaxSelections == 2

\* What input() gives at the menu's prompt.
Choices == {"0", "1", "2", "3", "4", "5", "6", "7", "8", "9", "x"}

\* The scan type of options 1 to 4.                              (1018-1041)
ScanTypeOf(choice) ==
    CASE choice = "1" -> "naabu"
      [] choice = "2" -> "httpx"
      [] choice = "3" -> "nuclei"
      [] choice = "4" -> "full"

ScanChoices == {"1", "2", "3", "4"}

MenuTargets == {<<"h1">>, <<"https://", "h1">>}

\* get_ports_input() for option 1; the other options pass no ports.
MenuPorts(choice) == IF choice = "1" THEN {Some("top-1000"), Some("80")} ELSE {None}

\* get_scan_options()                                              (257-274)
ScanOptions == [stealth : BOOLEAN, verbose : BOOLEAN, json_output : BOOLEAN]

NoScan == <<>>

\* cmd = ["sudo", "python", "src/workflow.py"]                          (333)
ScriptPrefix == <<<<"sudo">>, <<"python">>, <<"src/workflow.py">>>>

\* The command line run_scan builds.                               (333-363)
RunScanCmd(scan, session_dir) ==
    ScriptPrefix
    \o (CASE scan.scan_type = "naabu" -> <<Dash(<<"n", "a", "a", "b", "u">>)>>
          [] scan.scan_type = "httpx" -> <<Dash(<<"h", "t", "t", "p", "x">>)>>
          [] scan.scan_type = "nuclei" -> <<Dash(<<"n", "u", "c", "l", "e", "i">>)>>
          [] OTHER -> <<>>)
    \o <<Dash(<<"h", "o", "s", "t">>), scan.target>>
    \o <<Dash(<<"o">>), <<session_dir>>>>
    \o (IF TruthyStr(scan.ports) THEN <<Dash(<<"p">>), <<scan.ports[1]>>>> ELSE <<>>)
    \o (IF scan.options.stealth THEN <<Dash(<<"s">>)>> ELSE <<>>)
    \o (IF scan.options.verbose THEN <<Dash(<<"v">>)>> ELSE <<>>)
    \o (IF scan.options.json_output
        THEN <<DashDash(<<"j", "s", "o", "n", "-", "o", "u", "t", "p", "u", "t">>)>>
        ELSE <<>>)

\* The command line update_templates builds.                            (921)
UpdateTemplatesCmd ==
    ScriptPrefix
    \o <<DashDash(<<"u", "p", "d", "a", "t", "e", "-",
                    "t", "e", "m", "p", "l", "a", "t", "e", "s">>),
         Dash(<<"h", "o", "s", "t">>), <<"127.0.0.1">>>>

\* What the script receives as sys.argv[1:].
ScriptArgs(cmd) == SubSeq(cmd, Len(ScriptPrefix) + 1, Len(cmd))

\* How the child of a scan can end: with an exit code, or with an exception
\* in the menu: TimeoutExpired (subprocess.run with timeout=300 only),
\* KeyboardInterrupt, or the OSError of a child that cannot be started.
ExitCodes == {"exit_0", "exit_1", "exit_2"}

ChildOutcomes(verbose) ==
    ExitCodes \cup {"KeyboardInterrupt", "OSError"}
    \cup (IF verbose THEN {} ELSE {"TimeoutExpired"})

\* except subprocess.TimeoutExpired / KeyboardInterrupt / Exception (574-585)
\* (Variant: no clause for KeyboardInterrupt.)
Caught_NoInterruptClause(e) == e \in {"TimeoutExpired", "OSError"}

Caught(e) == e \in {"TimeoutExpired", "KeyboardInterrupt", "OSError"}

MenuIdle ==
    /\ mn_pc = "idle"
    /\ mn_choice = ""
    /\ mn_scan = NoScan
    /\ mn_cmd = <<>>
    /\ mn_children = <<>>
    /\ mn_outcome = "none"
    /\ mn_exc = "none"
    /\ mn_exit = None
    /\ mn_log = <<>>

\* main() has shown the menu for the first time.                 (1005-1016)
InitMenuVars ==
    /\ mn_pc = "menu"
    /\ mn_choice = ""
    /\ mn_scan = NoScan
    /\ mn_cmd = <<>>
    /\ mn_children = <<>>
    /\ mn_outcome = "none"
    /\ mn_exc = "none"
    /\ mn_exit = None
    /\ mn_log = <<>>

\* run_scan is over and main's loop shows the menu again.
BackToMenu ==
    /\ mn_pc' = "menu"
    /\ mn_log' = Append(mn_log, [choice |-> mn_choice, exists |-> mn_scan.exists,
                                 spawned |-> Len(mn_children),
                                 outcome |-> mn_outcome, returned |-> TRUE])
    /\ mn_scan' = NoScan
    /\ mn_cmd' = <<>>
    /\ mn_children' = <<>>
    /\ mn_outcome' = "none"
    /\ mn_exc' = "none"
    /\ UNCHANGED mn_exit

\* An exception leaves run_scan and main, and the handler of the entry point
\* ends the process: status 0 for KeyboardInterrupt, 1 otherwise. (1082-1090)
LeaveMain(e) ==
    /\ mn_pc' = "exited"
    /\ mn_exit' = Some(IF e = "KeyboardInterrupt" THEN 0 ELSE 1)
    /\ mn_log' = Append(mn_log, [choice |-> mn_choice, exists |-> mn_scan.exists,
                                 spawned |-> Len(mn_children),
                                 outcome |-> mn_outcome, returned |-> FALSE])
    /\ mn_scan' = NoScan
    /\ mn_cmd' = <<>>
    /\ mn_children' = <<>>
    /\ mn_outcome' = "none"
    /\ UNCHANGED mn_exc

\* Options 1 to 4: the prompts for target, ports and options, then the call
\* of run_scan.                                                 (1018-1041)
SelectScan ==
    /\ mn_pc = "menu"
    /\ Len(mn_log) < MaxSelections
    /\ \E choice \in ScanChoices, target \in MenuTargets, options \in ScanOptions,
          exists \in BOOLEAN :
         \E ports \in MenuPorts(choice) :
            /\ mn_choice' = choice
            /\ mn_scan' = [scan_type |-> ScanTypeOf(choice), target |-> target,
                           ports |-> ports, options |-> options, exists |-> exists]
    /\ mn_pc' = "run_scan"
    /\ mn_cmd' = <<>>
    /\ UNCHANGED <<mn_children, mn_outcome, mn_exc, mn_exit, mn_log, notMn>>

\* run_scan up to the test for src/workflow.py: the session directory, the
\* command line, and the return to the menu when the script is missing (the
\* command line goes away with the call).
\*                                                                 (324-392)
BuildCommand ==
    /\ mn_pc = "run_scan"
    /\ IF mn_scan.exists
       THEN /\ mn_cmd' = RunScanCmd(mn_scan, SessionDir(mn_scan.scan_type,
                                                        mn_scan.target, sd_now))
            /\ mn_pc' = "try"
            /\ UNCHANGED <<mn_scan, mn_exc, mn_exit, mn_log, mn_outcome, mn_children>>
       ELSE BackToMenu
    /\ UNCHANGED <<mn_choice, notMn>>

\* subprocess.Popen(cmd, ...) and the loop that reads it (verbose), or
\* subprocess.run(cmd, ..., timeout=300): one child, which ends with an exit
\* code or with an exception raised in the menu.                   (409-485)
RunChild ==
    /\ mn_pc = "try"
    /\ mn_children' = Append(mn_children, mn_cmd)
    /\ \E outcome \in ChildOutcomes(mn_scan.options.verbose) :
         /\ mn_outcome' = outcome
         /\ IF outcome \in ExitCodes
            THEN mn_pc' = "after" /\ UNCHANGED mn_exc
            ELSE mn_pc' = "except" /\ mn_exc' = outcome
    /\ UNCHANGED <<mn_choice, mn_scan, mn_cmd, mn_exit, mn_log, notMn>>

\* The rest of the try block: the output files, the summary, the preview and
\* "Press Enter to continue"; an error in them is an OSError.      (487-572)
AfterChild ==
    /\ mn_pc = "after"
    /\ \/ BackToMenu
       \/ /\ mn_pc' = "except"
          /\ mn_exc' = "OSError"
          /\ UNCHANGED <<mn_scan, mn_cmd, mn_exit, mn_log, mn_outcome, mn_children>>
    /\ UNCHANGED <<mn_choice, notMn>>

\* The except clauses of run_scan, each ending in "Press Enter to continue".
\*                                                                 (574-585)
HandleException ==
    /\ mn_pc = "except"
    /\ IF Caught(mn_exc) THEN BackToMenu ELSE LeaveMain(mn_exc)
    /\ UNCHANGED <<mn_choice, notMn>>

\* Option 6: update_templates() runs the script with its own command line and
\* comes back whatever the exit code, or the error starting it.    (913-933)
UpdateTemplates ==
    /\ mn_pc = "menu"
    /\ mn_choice' = "6"
    /\ mn_cmd' = UpdateTemplatesCmd
    /\ UNCHANGED <<mn_pc, mn_scan, mn_children, mn_outcome, mn_exc, mn_exit, mn_log, notMn>>

\* Options 5, 7, 8, 9 and any other input: the handler returns and the loop
\* goes on.                                                     (1043-1080)
SelectOther ==
    /\ mn_pc = "menu"
    /\ \E choice \in Choices \ (ScanChoices \cup {"0", "6"}) : mn_choice' = choice
    /\ mn_cmd' = <<>>
    /\ UNCHANGED <<mn_pc, mn_scan, mn_children, mn_outcome, mn_exc, mn_exit,
                   mn_log, notMn>>

\* Option 0: sys.exit(0)                                        (1071-1076)
SelectExit ==
    /\ mn_pc = "menu"
    /\ mn_choice' = "0"
    /\ mn_pc' = "exited"
    /\ mn_exit' = Some(0)
    /\ mn_cmd' = <<>>
    /\ UNCHANGED <<mn_scan, mn_children, mn_outcome, mn_exc, mn_log, notMn>>

RestIdle == FindToolIdle /\ SessionIdle /\ PollIdle /\ ShellRcIdle /\ InstallIdle /\ MenuIdle

\* The other components of the menu and the installer are not running.
IdleButFindTool == SessionIdle /\ PollIdle /\ ShellRcIdle /\ InstallIdle /\ MenuIdle

IdleButSession == FindToolIdle /\ PollIdle /\ ShellRcIdle /\ InstallIdle /\ MenuIdle

IdleButPoll == FindToolIdle /\ SessionIdle /\ ShellRcIdle /\ InstallIdle /\ MenuIdle

IdleButShellRc == FindToolIdle /\ SessionIdle /\ PollIdle /\ InstallIdle /\ MenuIdle

IdleButInstall == FindToolIdle /\ SessionIdle /\ PollIdle /\ ShellRcIdle /\ MenuIdle

IdleButMenu == FindToolIdle /\ SessionIdle /\ PollIdle /\ ShellRcIdle /\ InstallIdle


\* ------------------------------------------------------------------------
\* Specifications
\* ------------------------------------------------------------------------
\* run_cmd called on its own.
Init == InitRunCmdVars /\ NaabuIdle /\ ParserIdle /\ WorkflowIdle /\ ExecIdle /\ RestIdle

Next == SudoPrefix \/ RunCmdStep

Spec == Init /\ [][Next]_vars

\* run_naabu, with the run_cmd call it makes.
InitNaabu == RunCmdIdle /\ InitNaabuVars /\ ParserIdle /\ WorkflowIdle /\ ExecIdle /\ RestIdle

NextNaabu == RunNaabu \/ SudoPrefix \/ RunCmdStep \/ NaabuReturn

SpecNaabu == InitNaabu /\ [][NextNaabu]_vars

\* parse_naabu_results.
InitParser == RunCmdIdle /\ NaabuIdle /\ InitParserVars /\ WorkflowIdle /\ ExecIdle /\ RestIdle

NextParser == ParseNaabuResults

SpecParser == InitParser /\ [][NextParser]_vars

\* workflow.py from the parsed command line to the exit of the process.
InitWorkflow == RunCmdIdle /\ NaabuIdle /\ ParserIdle /\ InitWorkflowVars /\ ExecIdle /\ RestIdle

NextWorkflow ==
    \/ Setup
    \/ OutputDir
    \/ EnterPortScan
    \/ PortScan
    \/ EnterHttpProbe
    \/ HttpProbe
    \/ EnterVulnScan
    \/ VulnScan
    \/ EnterSummary
    \/ Summary
    \/ TopLevelHandler
    \/ Interrupt

SpecWorkflow == InitWorkflow /\ [][NextWorkflow]_vars

\* get_executable_path.
InitExec == RunCmdIdle /\ NaabuIdle /\ ParserIdle /\ WorkflowIdle /\ InitExecVars /\ RestIdle

NextExec == GetExecutablePath

SpecExec == InitExec /\ [][NextExec]_vars

\* The components above are not running.
CoreIdle == RunCmdIdle /\ NaabuIdle /\ ParserIdle /\ WorkflowIdle /\ ExecIdle

\* find_tool_path.
InitFindTool == CoreIdle /\ InitFindToolVars /\ IdleButFindTool

NextFindTool == TryUtils \/ TryWhich \/ TryPath \/ TryGoPath

SpecFindTool == InitFindTool /\ [][NextFindTool]_vars

\* The session directories of the menu's scans.
InitSession == CoreIdle /\ RestIdle

NextSession == Tick \/ CreateScanSessionDir

SpecSession == InitSession /\ [][NextSession]_vars


\* The real-time output loop of run_scan with its child.
InitPoll == CoreIdle /\ InitPollVars /\ IdleButPoll

NextPoll == ChildWrite \/ ChildExit \/ Poll \/ ReadStdout \/ ReadStderr \/ Communicate

SpecPoll == InitPoll /\ [][NextPoll]_vars


\* update_shell_rc_files applied again and again with the same paths.
InitShellRc == CoreIdle /\ InitShellRcVars /\ IdleButShellRc

NextShellRc == UpdateShellRcFiles

SpecShellRc == InitShellRc /\ [][NextShellRc]_vars


\* install_security_tools.
InitInstall == CoreIdle /\ InitInstallVars /\ IdleButInstall

NextInstall == CheckInstalled \/ AptInstall \/ GoInstall \/ CreateNaabuAlternative \/ ReturnInstalled

SpecInstall == InitInstall /\ [][NextInstall]_vars


\* The menu loop with the scans it starts.
InitMenu == CoreIdle /\ InitMenuVars /\ IdleButMenu

NextMenu ==
    \/ SelectScan
    \/ BuildCommand
    \/ RunChild
    \/ AfterChild
    \/ HandleException
    \/ UpdateTemplates
    \/ SelectOther
    \/ SelectExit

SpecMenu == InitMenu /\ [][NextMenu]_vars

\* ------------------------------------------------------------------------
\* Properties of run_cmd
\* ------------------------------------------------------------------------
\* The attempts run_cmd is allowed: range(retry + 1).
Allowed == 0..rc_retry

AllMeet(o) == \A a \in Allowed : rc_env[a] = o

\* The attempts at which the command would succeed, among the allowed ones.
OkAttempts == {a \in Allowed : rc_env[a] = "ok"}

FirstOk == CHOOSE a \in OkAttempts : \A b \in OkAttempts : a <= b

\* C1: called with check=False on a command whose every attempt exits
\* non-zero, run_cmd never spawns more than retry+1 times, and when it returns
\* it has spawned exactly retry+1 times and returns False.
C1_AlwaysFailingSpawnsRetryPlusOne ==
    (~rc_check /\ AllMeet("nonzero")) =>
        /\ rc_spawns <= rc_retry + 1
        /\ rc_pc = "done" => (rc_spawns = rc_retry + 1 /\ rc_result = "False")

C1_Witness ==
    /\ rc_pc = "done" /\ ~rc_check /\ rc_retry = 2 /\ AllMeet("nonzero")
    /\ rc_spawns = 3 /\ rc_result = "False"

\* C2: on a command whose every attempt exceeds the timeout, run_cmd spawns at
\* most retry+1 times, at most one child is alive at any time, no child is
\* alive when the next attempt starts or the call returns, and the call
\* returns False.
C2_TimeoutLeavesNoChild ==
    AllMeet("timeout") =>
        /\ rc_spawns <= rc_retry + 1
        /\ Cardinality(AliveChildren) <= 1
        /\ rc_pc \in {"loop", "sleep", "done"} => AliveChildren = {}
        /\ rc_pc = "done" => rc_result = "False"

C2_Witness ==
    /\ rc_pc = "done" /\ rc_retry = 2 /\ AllMeet("timeout")
    /\ \A a \in Allowed : rc_child[a] = "reaped"
    /\ rc_result = "False"

\* C3: no exception leaves run_cmd, whatever the attempts meet and whether
\* check is set or not: when run_cmd ends it has returned True or False with
\* no exception in flight, and False when no allowed attempt succeeds.
C3_NeverRaises ==
    /\ rc_result # "raised"
    /\ rc_pc = "done" =>
        /\ rc_exc = "none"
        /\ rc_result \in {"True", "False"}
        /\ OkAttempts = {} => rc_result = "False"

C3_Witness ==
    /\ rc_pc = "done" /\ rc_check /\ rc_retry = 1
    /\ rc_env[0] = "spawn_exc" /\ rc_env[1] = "nonzero"
    /\ rc_spawns = 2 /\ rc_result = "False"

\* C4: run_cmd stops at the first attempt that exits with code zero: it
\* returns True iff one of the retry+1 allowed attempts succeeds, and then the
\* number of spawns is the (1-based) index of the first success; it is retry+1
\* when none succeeds.
C4_StopsAtFirstSuccess ==
    /\ rc_spawns <= (IF OkAttempts = {} THEN rc_retry + 1 ELSE FirstOk + 1)
    /\ rc_pc = "done" =>
        /\ rc_result = "True" <=> OkAttempts # {}
        /\ rc_spawns = (IF OkAttempts = {} THEN rc_retry + 1 ELSE FirstOk + 1)

C4_Witness ==
    /\ rc_pc = "done" /\ rc_retry = 2
    /\ rc_env[0] = "timeout" /\ rc_env[1] = "ok" /\ rc_env[2] = "nonzero"
    /\ rc_spawns = 2 /\ rc_result = "True"

\* What /bin/sh is given to interpret when Popen is called with shell=True:
\* the string itself, or the first item of a list (the other items become
\* the shell's positional arguments).
ShellScript(cmd) == cmd.v[1]

\* C13: every Popen call gets the shell flag the caller passed. A shell string
\* passed with shell=True is still a string when it is spawned, and what the
\* shell interprets is that string, with the prefix in front of it when
\* use_sudo adds one. In every other case the items spawned are the caller's
\* items, with or without the prefix, and a vector stays a vector.
C13_SpawnedAsSupplied ==
    \A i \in DOMAIN rc_spawned :
        /\ rc_spawned[i].shell = rc_shell
        /\ IF rc_shell /\ ~rc_cmd_arg.list
           THEN /\ ~rc_spawned[i].cmd.list
                /\ ShellScript(rc_spawned[i].cmd)
                     \in {rc_cmd_arg.v[1], "sudo " \o rc_cmd_arg.v[1]}
           ELSE /\ rc_spawned[i].cmd.v \in {rc_cmd_arg.v, <<"sudo">> \o rc_cmd_arg.v}
                /\ rc_cmd_arg.list => rc_spawned[i].cmd.list

\* The three conditions of the prefix.
SudoApplies == rc_use_sudo /\ rc_platform # "windows" /\ rc_euid # 0

\* C14: every Popen call of one run_cmd call gets the same command: the
\* caller's items with `sudo` in front, once, when use_sudo is set, the
\* platform is not Windows and the effective user id is not 0, and the
\* caller's items alone otherwise.
C14_SudoPrefixOnce ==
    \A i \in DOMAIN rc_spawned :
        /\ rc_spawned[i].cmd.v =
              (IF SudoApplies THEN <<"sudo">> \o rc_cmd_arg.v ELSE rc_cmd_arg.v)
        /\ rc_spawned[i].cmd = rc_spawned[1].cmd
        /\ Count(rc_spawned[i].cmd.v, "sudo") = (IF SudoApplies THEN 1 ELSE 0)

C14_Witness ==
    /\ rc_pc = "done" /\ SudoApplies /\ rc_cmd_arg.list
    /\ rc_spawns = 3
    /\ rc_spawned[3].cmd.v = <<"sudo", "tool", "-v">>

\* C15: every sleep lasts 2 seconds; when an attempt starts, as many sleeps
\* have been made as attempts before it (none before the first, one between
\* two attempts), and from the start of the n-th attempt to the return of the
\* call there have been n-1, whatever the attempts met.
C15_OneSleepBetweenAttempts ==
    /\ \A i \in DOMAIN rc_sleeps : rc_sleeps[i] = 2
    /\ Len(rc_sleeps) = (IF rc_pc \in {"entry", "loop"} \/ rc_spawns = 0
                         THEN rc_spawns
                         ELSE rc_spawns - 1)

C15_Witness ==
    /\ rc_pc = "done" /\ rc_retry = 2
    /\ rc_env[0] = "nonzero" /\ rc_env[1] = "timeout" /\ rc_env[2] = "spawn_exc"
    /\ rc_spawns = 3 /\ rc_sleeps = <<2, 2>>

\* ------------------------------------------------------------------------
\* Properties of run_naabu
\* ------------------------------------------------------------------------
\* run_naabu has handed a vector to run_cmd.
ReachedExecution == nb_pc \in {"run_cmd", "done"} /\ nb_cmd # <<>>

TargetFlagCount == Count(nb_cmd, "-host") + Count(nb_cmd, "-l")

\* C5: every vector handed to run_cmd contains exactly one target flag, -host
\* or -l, and never both.
C5_ExactlyOneTargetFlag ==
    ReachedExecution =>
        /\ TargetFlagCount = 1
        /\ ~(Contains(nb_cmd, "-host") /\ Contains(nb_cmd, "-l"))

\* The tokens the caller supplied: every value that reaches the vector.
HasScanMode(cmd) == \E f \in ScanModeFlags : Contains(cmd, f)

EndsWithFallback(cmd) ==
    /\ Len(cmd) >= 2
    /\ SubSeq(cmd, Len(cmd) - 1, Len(cmd)) = FallbackScanMode

\* C6: when what the caller supplied contains no scan-mode flag, the vector
\* handed to run_cmd is the caller's flags followed by `-scan-type connect`,
\* which it contains exactly once; when it contains one, the vector is the
\* caller's flags unchanged.
C6_FallbackScanModeOnce ==
    ReachedExecution =>
        IF HasScanMode(NaabuFlags(nb_args))
        THEN nb_cmd = NaabuFlags(nb_args)
        ELSE /\ nb_cmd = NaabuFlags(nb_args) \o FallbackScanMode
             /\ EndsWithFallback(nb_cmd)
             /\ Count(nb_cmd, "-scan-type") = 1

C6_Witness ==
    /\ nb_pc = "done" /\ nb_result = "True"
    /\ nb_args.additional_args = Some(<<"-v">>) /\ nb_args.ports = Some("80")
    /\ EndsWithFallback(nb_cmd) /\ Count(nb_cmd, "-scan-type") = 1

\* A parameter is set: it is not None, not False, not empty and not zero.
SetStr(o) == o \notin {None, Some("")}

SetInt(o) == o \notin {None, Some(0)}

\* The decimal text of the numbers the calls pass.
IntText(n) == CASE n = 0 -> "0" [] n = 4 -> "4" [] n = 15 -> "15" [] n = 100 -> "100"

IntValue(o) == IF o = None THEN None ELSE Some(IntText(o[1]))

\* The optional flags in their order, each with whether its parameter is set
\* and the value that follows it (None for a flag without a value).
OptionalFlags(args) ==
    <<[flag |-> "-p", set |-> SetStr(args.ports), value |-> args.ports],
      [flag |-> "-exclude-ports", set |-> SetStr(args.exclude_ports),
       value |-> args.exclude_ports],
      [flag |-> "-c", set |-> SetInt(args.threads), value |-> IntValue(args.threads)],
      [flag |-> "-rate", set |-> SetInt(args.rate), value |-> IntValue(args.rate)],
      [flag |-> "-timeout", set |-> SetInt(args.timeout), value |-> IntValue(args.timeout)],
      [flag |-> "-json", set |-> args.json_output, value |-> None],
      [flag |-> "-o", set |-> SetStr(args.output_file), value |-> args.output_file],
      [flag |-> "-silent", set |-> args.silent, value |-> None]>>

\* The index at which a token occurs.
Pos(cmd, token) == CHOOSE k \in DOMAIN cmd : cmd[k] = token

MissingInput ==
    \/ ~SetStr(nb_args.target) /\ ~SetStr(nb_args.target_list)
    \/ SetStr(nb_args.target_list) /\ nb_args.target_list[1] \notin nb_files

\* C17: a call without a target and without a target list, or with a target
\* list that is not an existing file, never reaches run_cmd (no Popen call, no
\* vector built) and returns False.
C17_MissingInputSpawnsNothing ==
    MissingInput =>
        /\ rc_pc = "idle"
        /\ rc_spawns = 0 /\ rc_spawned = <<>>
        /\ nb_cmd = <<>>
        /\ nb_pc = "done" => nb_result = "False"

C17_Witness ==
    /\ nb_pc = "done" /\ nb_result = "False"
    /\ nb_args.target = Some("h1") /\ nb_args.target_list = Some("missing.txt")
    /\ rc_spawns = 0

\* ------------------------------------------------------------------------
\* Properties of parse_naabu_results
\* ------------------------------------------------------------------------
\* What Python's json.loads gives for each corpus line after strip(): <<v>>
\* with v the value in canonical form, <<>> when it raises JSONDecodeError.
ExpectedDecode ==
    [obj_a |-> <<<<"{", "\"", "a", "\"", ":", "1", "}">>>>,
     not_json |-> <<>>,
     obj_b |-> <<<<"{", "\"", "b", "\"", ":", "2", "}">>>>,
     blank |-> <<>>,
     spaces |-> <<>>,
     arr |-> <<<<"[", "1", ",", "2", "]">>>>,
     arr_open |-> <<>>,
     arr_close |-> <<>>,
     num |-> <<<<"7", "0">>>>]

\* The decoded values of the lines that parse, in order.
RECURSIVE ExpectedRecords(_)
ExpectedRecords(keys) ==
    IF keys = <<>> THEN <<>>
    ELSE ExpectedDecode[Head(keys)] \o ExpectedRecords(Tail(keys))

\* The file is an array in brackets: its first text character is `[` and its
\* last is `]`.
FileIsBracketed ==
    LET text == SelectSeq(ps_file.content, LAMBDA c : c \notin Whitespace)
    IN  text # <<>> /\ text[1] = "[" /\ text[Len(text)] = "]"

SpecExampleLines == <<"obj_a", "not_json", "obj_b">>

\* C7: in JSON mode, on a readable file that is not a bracket-delimited array,
\* the result is the sequence of the decoded values of the lines that parse
\* as JSON, in file order, the other lines (blank ones included) skipped; for
\* the three lines of the example it is the two objects.
C7_JsonLinesSkipInvalid ==
    (ps_pc = "done" /\ ps_json /\ ps_file.state = "ok" /\ ~FileIsBracketed) =>
        /\ ps_result = ResultList(ExpectedRecords(ps_lines))
        /\ ps_lines = SpecExampleLines =>
             ps_result.records = <<Corpus.obj_a, LStrip(Corpus.obj_b)>>

C7_Witness ==
    /\ ps_pc = "done" /\ ps_json /\ ps_file.state = "ok"
    /\ ps_lines = SpecExampleLines
    /\ ps_file.content[Len(ps_file.content)] = "\n"
    /\ Len(ps_result.records) = 2

\* C8: on a path where no regular file exists, and on a file that cannot be
\* read, the call returns None and raises nothing, in text and in JSON mode;
\* and no call at all ends with an exception.
C8_MissingFileGivesNone ==
    ps_pc = "done" =>
        /\ ps_result.kind \in {"None", "list"}
        /\ ps_file.state # "ok" => ps_result = ResultNone

C8_Witness ==
    /\ ps_pc = "done" /\ ps_file.state = "missing" /\ ps_json
    /\ ps_result = ResultNone

\* The lines that are not blank (empty or made of spaces only).
TextLines(keys) == SelectSeq(keys, LAMBDA k : k \notin {"blank", "spaces"})

\* The files of the corpus that are one JSON array for Python's json: the
\* array on one line, or opened on one line and closed on a later one, with
\* blank lines anywhere; both hold the elements 1 and 2.
WholeFileIsArray(keys) == TextLines(keys) \in {<<"arr">>, <<"arr_open", "arr_close">>}

ArrayElements == <<<<"1">>, <<"2">>>>

\* C18: in JSON mode, on a readable file, the result is the elements of the
\* array when the whole file is one valid JSON array; otherwise (the file is
\* no array, or looks like one and does not parse) it is what decoding every
\* line on its own gives, from the first line on, the lines that do not parse
\* skipped.
C18_WholeArrayThenLines ==
    (ps_pc = "done" /\ ps_json /\ ps_file.state = "ok") =>
        ps_result = ResultList(IF WholeFileIsArray(ps_lines)
                               THEN ArrayElements
                               ELSE ExpectedRecords(ps_lines))

C18_Witness ==
    /\ ps_pc = "done" /\ ps_json /\ ps_file.state = "ok"
    /\ ps_lines = <<"arr_open", "blank", "arr_close">>
    /\ ps_result = ResultList(<<<<"1">>, <<"2">>>>)

\* The text of each corpus line as a record: <<text>>, <<>> for a blank line.
VerbatimText ==
    [obj_a |-> <<<<"{", "\"", "a", "\"", ":", "1", "}">>>>,
     not_json |-> <<<<" ", "n", "o", "t", "-", "j", "s", "o", "n">>>>,
     obj_b |-> <<<<" ", "{", "\"", "b", "\"", ":", "2", "}">>>>,
     blank |-> <<>>,
     spaces |-> <<>>,
     arr |-> <<<<"[", "1", ",", " ", "2", "]">>>>,
     arr_open |-> <<<<"[", "1", ",">>>>,
     arr_close |-> <<<<"2", "]">>>>,
     num |-> <<<<"7", "0">>>>]

\* The same with the white space at both ends of the line removed.
StrippedText ==
    [obj_a |-> <<<<"{", "\"", "a", "\"", ":", "1", "}">>>>,
     not_json |-> <<<<"n", "o", "t", "-", "j", "s", "o", "n">>>>,
     obj_b |-> <<<<"{", "\"", "b", "\"", ":", "2", "}">>>>,
     blank |-> <<>>,
     spaces |-> <<>>,
     arr |-> <<<<"[", "1", ",", " ", "2", "]">>>>,
     arr_open |-> <<<<"[", "1", ",">>>>,
     arr_close |-> <<<<"2", "]">>>>,
     num |-> <<<<"7", "0">>>>]

RECURSIVE RecordsOf(_, _)
RecordsOf(table, keys) ==
    IF keys = <<>> THEN <<>>
    ELSE table[Head(keys)] \o RecordsOf(table, Tail(keys))

\* C19 as stated: in text mode the result is the text of the non-blank lines,
\* in file order, each unchanged apart from its line terminator.
C19_TextRecordsVerbatim ==
    (ps_pc = "done" /\ ~ps_json /\ ps_file.state = "ok") =>
        ps_result = ResultList(RecordsOf(VerbatimText, ps_lines))

\* C19 amended: in text mode the result is the text of the non-blank lines,
\* in file order, each without the white space at its two ends; a line that is
\* empty or holds white space only gives no record.
C19_TextRecordsStripped ==
    (ps_pc = "done" /\ ~ps_json /\ ps_file.state = "ok") =>
        ps_result = ResultList(RecordsOf(StrippedText, ps_lines))

C19_Witness ==
    /\ ps_pc = "done" /\ ~ps_json /\ ps_file.state = "ok"
    /\ ps_lines = <<"not_json", "spaces", "obj_b">>
    /\ Len(ps_result.records) = 2
    /\ ps_result.records[1] = <<"n", "o", "t", "-", "j", "s", "o", "n">>

\* ------------------------------------------------------------------------
\* Properties of the orchestration script
\* ------------------------------------------------------------------------
Entered(stage) == Contains(wf_trace, stage)

Interrupted == wf_exit = Some(130)

\* The run is over and was not interrupted.
RunEnded == wf_pc = "exit" /\ ~Interrupted

\* C9: when a stage reports a failure (its tool call returns unsuccessful, in a
\* session directory that exists) the pipeline is not halted: every later
\* stage is still entered, the run reaches SUMMARY and it does not end through
\* the top-level exception handler.
C9_StageFailureDoesNotHalt ==
    (RunEnded /\ wf_failed # {} /\ wf_dir.exists) =>
        /\ Entered("http_probe") /\ Entered("vuln_scan") /\ Entered("summary")
        /\ wf_exc = "none"
        /\ wf_exit = Some(0)

\* The port-scan stage was entered and its scan did not succeed, while the
\* session directory exists and the HTTP probe itself succeeds.
OnlyPortScanFails ==
    /\ Entered("port_scan")
    /\ wf_env.naabu_module = "repository" \/ wf_env.naabu = "fail"
    /\ wf_env.httpx = "ok"
    /\ wf_dir.exists

\* C10: when the port-scan stage fails, the ports file holds the two fallback
\* entries <target>:80 and <target>:443, run_port_scan returns its path, the
\* HTTP probe is called with that path as its input list, and the run reaches
\* the summary stage.
C10_PortScanFallbackFeedsProbe ==
    (RunEnded /\ OnlyPortScanFails) =>
        /\ wf_files["ports.txt"] = Some(<<"h1:80", "h1:443">>)
        /\ wf_ret["port_scan"] = Some(Join(wf_dir.path[1], "ports.txt"))
        /\ \E i \in DOMAIN wf_calls :
             wf_calls[i].tool = "httpx" /\ wf_calls[i].input = wf_ret["port_scan"]
        /\ Entered("summary")

StageOrder == <<"port_scan", "http_probe", "vuln_scan", "summary">>

\* A stage is active from its call to its return or to the exception that
\* leaves it.
Active(stage) == wf_pc = "in_" \o stage

\* The stage function has returned to main.
Returned(stage) ==
    IF stage = "summary" THEN wf_exit = Some(0) ELSE wf_ret[stage] # None

\* C11: the stages entered so far are always an initial part of PORT_SCAN,
\* HTTP_PROBE, VULN_SCAN, SUMMARY (none skipped, none entered twice, none out
\* of order); a stage is entered only after the stage before it has returned;
\* at most one stage is active, and it is the one entered last.
C11_StagesInFixedOrder ==
    /\ Len(wf_trace) <= Len(StageOrder)
    /\ wf_trace = SubSeq(StageOrder, 1, Len(wf_trace))
    /\ \A i \in 2..Len(wf_trace) : Returned(StageOrder[i - 1])
    /\ Cardinality({i \in DOMAIN StageOrder : Active(StageOrder[i])}) <= 1
    /\ \A i \in DOMAIN StageOrder :
         Active(StageOrder[i]) =>
             /\ Len(wf_trace) = i
             /\ ~Returned(StageOrder[i])

C11_Witness ==
    /\ wf_pc = "exit" /\ wf_exit = Some(0)
    /\ wf_trace = StageOrder
    /\ \A i \in 1..3 : Returned(StageOrder[i])

LocationsInOrder ==
    <<"/home/user/go/bin/" \o ex_cmd, "/home/user/.local/bin/" \o ex_cmd,
      "/usr/local/bin/" \o ex_cmd, "/usr/bin/" \o ex_cmd>>

DirsInOrder == <<"/home/user/go/bin", "/home/user/.local/bin", "/usr/local/bin", "/usr/bin">>

\* The location exists and is executable.
Matches(i) == ex_fs[DirsInOrder[i]] \in {"exec", "dir"}

\* The hit of the search path: the executable file in the first directory of
\* PATH that has one.
PathHits ==
    {Some(ex_path[i] \o "/" \o ex_cmd) : i \in
        {k \in DOMAIN ex_path : /\ ex_fs[ex_path[k]] = "exec"
                                /\ \A m \in 1..(k - 1) : ex_fs[ex_path[m]] # "exec"}}

Returned_Path == ex_result[1]

\* C20: get_executable_path returns the search-path hit when there is one;
\* without one it returns the first of the four locations, in their order,
\* that exists and is executable, so never a later one when an earlier one
\* matches; and it returns None exactly when there is neither a hit nor a
\* matching location.
C20_SearchPathThenLocations ==
    ex_pc = "done" =>
        /\ PathHits # {} => Returned_Path \in PathHits
        /\ PathHits = {} =>
              \/ /\ Returned_Path = None
                 /\ \A i \in 1..4 : ~Matches(i)
              \/ \E i \in 1..4 :
                    /\ Returned_Path = Some(LocationsInOrder[i])
                    /\ Matches(i)
                    /\ \A j \in 1..(i - 1) : ~Matches(j)
        /\ Returned_Path = None <=>
              (PathHits = {} /\ \A i \in 1..4 : ~Matches(i))

C20_Witness ==
    /\ ex_pc = "done" /\ ex_cmd = "naabu"
    /\ ex_path = <<"/opt/tools/bin", "/usr/bin">>
    /\ ex_fs["/opt/tools/bin"] = "missing" /\ ex_fs["/usr/bin"] = "file"
    /\ ex_fs["/home/user/go/bin"] = "file"
    /\ ex_fs["/home/user/.local/bin"] = "exec" /\ ex_fs["/usr/local/bin"] = "exec"
    /\ ex_result = Some(Some("/home/user/.local/bin/naabu"))

\* ------------------------------------------------------------------------
\* Properties of find_tool_path
\* ------------------------------------------------------------------------
\* Running the path with one of the five flags gave exit code zero.
RanWithZero(path) ==
    \E i \in DOMAIN ft_runs :
        /\ ft_runs[i].path = path
        /\ ft_runs[i].flag \in {"--version", "-version", "-v", "--help", "-h"}
        /\ ft_runs[i].outcome = "zero"

FoundPath == ft_result[1]

\* The entries of search_paths that are executable files.
ExecutableCandidates ==
    {q \in {SearchPathList(ft_tool)[i] : i \in DOMAIN SearchPathList(ft_tool)} :
        ft_env.fs[q] \in {"broken", "help_only", "works"}}

\* C21: verify_tool_works answers True for a path exactly when a run of that
\* path with one of the flags gave exit code zero; the search goes on after
\* every candidate that fails verification and stops at the first that
\* passes; a returned path is the one verified last, with the answer True, so
\* an executable that fails verification is never returned; and None is
\* returned only after every executable candidate has failed verification.
C21_ReturnsOnlyVerifiedPaths ==
    /\ \A i \in DOMAIN ft_verified : ft_verified[i].ok <=> RanWithZero(ft_verified[i].path)
    /\ \A i \in 1..(Len(ft_verified) - 1) : ~ft_verified[i].ok
    /\ (ft_verified # <<>> /\ ft_verified[Len(ft_verified)].ok) =>
          ft_result = Some(Some(ft_verified[Len(ft_verified)].path))
    /\ (ft_pc = "done" /\ FoundPath # None) =>
          /\ ft_verified # <<>>
          /\ ft_verified[Len(ft_verified)] = [path |-> FoundPath[1], ok |-> TRUE]
          /\ ft_env.fs[FoundPath[1]] \in {"help_only", "works"}
    /\ (ft_pc = "done" /\ FoundPath = None) =>
          /\ \A i \in DOMAIN ft_verified : ~ft_verified[i].ok
          /\ \A q \in ExecutableCandidates :
                \E i \in DOMAIN ft_verified : ft_verified[i].path = q

C21_Witness ==
    /\ ft_pc = "done" /\ ft_tool = "httpx"
    /\ ft_env.fs["/usr/bin/httpx"] = "broken"
    /\ ft_env.fs["/usr/bin/httpx-toolkit"] = "help_only"
    /\ ft_result = Some(Some("/usr/bin/httpx-toolkit"))
    /\ Len(ft_verified) >= 2

\* ------------------------------------------------------------------------
\* Properties of the menu's scan sessions
\* ------------------------------------------------------------------------
\* C22: any two invocations of run_scan get different session directories.
C22_SessionDirsDistinct ==
    \A i, j \in DOMAIN sd_sessions :
        i # j => sd_sessions[i].dir # sd_sessions[j].dir

\* ------------------------------------------------------------------------
\* Properties of run_naabu's call of run_cmd
\* ------------------------------------------------------------------------
\* No attempt that run_cmd(cmd, retry=1) can make succeeds.
NoAttemptSucceeds == \A a \in 0..1 : rc_env[a] # "ok"

\* C24: once validation has passed, run_naabu runs its vector through run_cmd
\* with retry=1, so the command is spawned at most twice; run_naabu returns
\* True exactly when run_cmd returned True; and when the executable is missing
\* or every attempt fails it returns False and raises nothing.
C24_RetryOnceReportsRunCmd ==
    ReachedExecution =>
        /\ rc_cmd_arg = Vector(nb_cmd) /\ ~rc_shell /\ ~rc_use_sudo
        /\ rc_retry = 1
        /\ rc_spawns <= 2
        /\ \A i \in 1..Len(rc_spawned) : rc_spawned[i].cmd = Vector(nb_cmd)
        /\ nb_result # "raised"
        /\ nb_pc = "done" =>
            /\ nb_result \in {"True", "False"}
            /\ nb_result = "True" <=> rc_result = "True"
            /\ NoAttemptSucceeds => nb_result = "False"

C24_Witness ==
    /\ nb_pc = "done" /\ nb_result = "False" /\ rc_result = "False"
    /\ rc_env[0] = "spawn_exc" /\ rc_env[1] = "spawn_exc"
    /\ rc_spawns = 2 /\ rc_retry = 1
    /\ nb_args.target = Some("h1")

\* ------------------------------------------------------------------------
\* Properties of the paths the stages hand on
\* ------------------------------------------------------------------------
\* The stage function was called and control has left it, and the run was not
\* interrupted.
Left(stage) == Entered(stage) /\ ~Active(stage) /\ ~Interrupted

\* The file of a stage in the session output directory.
StagePath(name) == Some(Join(wf_dir.path[1], name))

\* C25: the path run_port_scan returned is the `l` input of the HTTP probe and
\* the path run_http_probe returned is the `l` input of the vulnerability
\* scan (the call that names an output file; the template update names none);
\* both lie in the session output directory; and each of the two stages
\* returns its path whether its tool succeeded or not.
C25_StagePathsChained ==
    /\ \A i \in DOMAIN wf_calls :
         /\ wf_calls[i].tool = "httpx" =>
              /\ wf_calls[i].input = wf_ret["port_scan"]
              /\ wf_calls[i].input = StagePath("ports.txt")
         /\ (wf_calls[i].tool = "nuclei" /\ wf_calls[i].o # None) =>
              /\ wf_calls[i].input = wf_ret["http_probe"]
              /\ wf_calls[i].input = StagePath("http_services.txt")
    /\ Left("port_scan") => wf_ret["port_scan"] = StagePath("ports.txt")
    /\ Left("http_probe") => wf_ret["http_probe"] = StagePath("http_services.txt")

\* ------------------------------------------------------------------------
\* Properties of the two copies of run_cmd
\* ------------------------------------------------------------------------
IsPrefix(s, t) == Len(s) <= Len(t) /\ s = SubSeq(t, 1, Len(s))

\* What the template's run_cmd does on the call that is running.
UtilsTrace ==
    UtilsRunCmd(rc_cmd_arg, rc_shell, rc_check, rc_use_sudo, rc_retry,
                rc_platform, rc_euid, rc_env)

\* C27: on a Unix platform the installer's run_cmd and the template's run_cmd
\* do the same on every call: all along, the Popen calls and the sleeps of the
\* one are an initial part of those of the other and it kills only a child the
\* other kills, and when it returns the two have made the same Popen calls
\* (command and shell), the same kills and waits, the same sleeps, and return
\* the same boolean.
C27_CopiesEquivalentOnUnix ==
    (rc_platform # "windows" /\ rc_pc # "entry") =>
        /\ IsPrefix(rc_spawned, UtilsTrace.spawned)
        /\ IsPrefix(rc_sleeps, UtilsTrace.sleeps)
        /\ \A a \in Attempts :
             rc_child[a] \in {"killed", "reaped"} => UtilsTrace.child[a] = "reaped"
        /\ rc_pc = "done" =>
             /\ rc_spawned = UtilsTrace.spawned
             /\ rc_sleeps = UtilsTrace.sleeps
             /\ rc_child = UtilsTrace.child
             /\ rc_result = UtilsTrace.result
             /\ rc_result \in {"True", "False"}

C27_Witness ==
    /\ rc_pc = "done" /\ rc_platform = "linux" /\ rc_use_sudo /\ rc_euid = 1000
    /\ rc_retry = 2 /\ rc_check
    /\ rc_env[0] = "timeout" /\ rc_env[1] = "nonzero" /\ rc_env[2] = "ok"
    /\ Len(rc_spawned) = 3 /\ rc_sleeps = <<SleepSeconds, SleepSeconds>>
    /\ rc_result = "True" /\ UtilsTrace.result = "True"

\* ------------------------------------------------------------------------
\* Properties of the real-time output loop
\* ------------------------------------------------------------------------
Other(stream) == IF stream = "stdout" THEN "stderr" ELSE "stdout"

\* The menu is inside readline() on the stream and nothing is there to read.
BlockedReading(stream) ==
    /\ pl_pc = "read_" \o stream
    /\ pl_pipe[stream] = <<>>
    /\ ~pl_exited

\* The child is inside a write to the stream, whose pipe is full.
BlockedWriting(stream) ==
    /\ ~pl_exited
    /\ pl_script # <<>>
    /\ Head(pl_script).stream = stream
    /\ Len(pl_pipe[stream]) >= PipeCapacity

\* The lines as the loop records them: without trailing white space.
Recorded(lines) == [i \in DOMAIN lines |-> RStrip(lines[i])]

\* C26: for every child that writes finitely many lines to stdout and stderr
\* over bounded pipes and then exits, the menu is never blocked reading one
\* stream while the child is blocked writing the other, and once the loop and
\* the final communicate() are over each captured list holds the lines the
\* child wrote to that stream, each once and in order.
C26_PollLoopNeverStuck ==
    /\ \A s \in Streams : ~(BlockedReading(s) /\ BlockedWriting(Other(s)))
    /\ pl_pc = "done" => \A s \in Streams : pl_lines[s] = Recorded(pl_written[s])

Ran(kind, tool, ok) ==
    \E i \in DOMAIN it_cmds :
        it_cmds[i] = [kind |-> kind, tool |-> tool, ok |-> ok]

\* C29: in the dictionary install_security_tools returns, naabu is True when
\* naabu was not found and its `go install` failed, whether
\* create_naabu_alternative wrote the script or not; httpx and nuclei are True
\* only if get_executable_path found the tool or an install command for it
\* reported success.
C29_NaabuMarkedWithoutScript ==
    it_result # None =>
        /\ (~it_env.found["naabu"] /\ Ran("go", "naabu", FALSE)) =>
               /\ it_result[1]["naabu"]
               /\ it_alt \in {Some(TRUE), Some(FALSE)}
        /\ \A t \in {"httpx", "nuclei"} :
               it_result[1][t] =>
                   it_env.found[t] \/ Ran("apt", t, TRUE) \/ Ran("go", t, TRUE)

C29_Witness ==
    /\ it_pc = "done"
    /\ ~it_env.found["naabu"] /\ Ran("apt", "naabu", FALSE) /\ Ran("go", "naabu", FALSE)
    /\ it_alt = Some(FALSE)
    /\ it_result[1]["naabu"]
    /\ ~it_result[1]["httpx"] /\ Ran("go", "httpx", FALSE)
    /\ it_result[1]["nuclei"] /\ Ran("apt", "nuclei", TRUE)

\* ------------------------------------------------------------------------
\* Properties of the menu loop
\* ------------------------------------------------------------------------
\* run_scan is running.
InRunScan == mn_pc \in {"run_scan", "try", "after", "except"}

OptionTokens(argv) == {argv[i] : i \in {j \in DOMAIN argv : OptionLike(argv[j])}}

\* The target the menu means the command line to name.
MeantTarget == IF mn_choice = "6" THEN <<"127.0.0.1">> ELSE mn_scan.target

\* C28: every command line run_scan and update_templates build is accepted by
\* the parser of the orchestration script: it parses, the target it parses to
\* is the menu's target, given as the positional argument, and every option
\* token in it is an option the script declares.
C28_MenuCommandsAccepted ==
    (mn_cmd # <<>> /\ (mn_choice = "6" \/ mn_pc = "try")) =>
        /\ ParseArgs(ScriptArgs(mn_cmd)).status = "parsed"
        /\ ParseArgs(ScriptArgs(mn_cmd)).target = Some(MeantTarget)
        /\ OptionTokens(ScriptArgs(mn_cmd)) \subseteq OptionStrings

====
